---------------------------- MODULE Spec2Model ----------------------------
(* A state-machine model of client-sdk/ts-web/rt/convert-rust/convert.py:   *)
(* the rustdoc-JSON to TypeScript declaration generator.  The mutually      *)
(* recursive visitors are run on an explicit call stack, one action per     *)
(* function; emitted text is a sequence of string tokens in which every     *)
(* line break is the token NL and every identifier is spelled character by  *)
(* character.  A second part models the ROFL appd clients of                 *)
(* rofl-client/py (RoflClient and AsyncRoflClient): each call runs up to    *)
(* its HTTP request, the daemon replies, and the call resumes.              *)
EXTENDS Integers, Sequences, FiniteSets, TLC

VARIABLES
    sid,                 \* which input crate (rustdoc JSON) was loaded
    hashseed,            \* the interpreter's per-process string hash seed
    pc,                  \* position of the module-level code
    root,                \* number of root visits completed (lines 176-178)
    stack,               \* call stack of the visitors, innermost frame last
    ret,                 \* the value most recently returned by a visitor
    returned,            \* history: the returns of visit_struct and visit_enum
    used_types_by_rdid,  \* the memo table, in insertion order
    stderr,              \* lines written to sys.stderr
    stdout,              \* tokens written to sys.stdout
    error,               \* the uncaught exception, "" when none
    run,                 \* ordinal of the current process invocation
    prev_stdout,         \* stdout of the previous invocation
    client,              \* the ROFL client object: its class and self.url
    call,                \* the client call in progress or last finished
    transports,          \* uds arguments of the httpx.AsyncHTTPTransport
                         \* objects created during that call
    requests,            \* HTTP requests sent during that call
    response,            \* the daemon's reply to the pending request
    outcome              \* what the call returned, or the exception raised

convert_vars == <<sid, hashseed, pc, root, stack, ret, returned, used_types_by_rdid,
                  stderr, stdout, error, run, prev_stdout>>
rofl_vars == <<client, call, transports, requests, response, outcome>>

vars == <<sid, hashseed, pc, root, stack, ret, returned, used_types_by_rdid,
          stderr, stdout, error, run, prev_stdout,
          client, call, transports, requests, response, outcome>>

-----------------------------------------------------------------------------
(* Bounds *)

\* Depth of the interpreter's call stack at which a further call raises
\* RecursionError (the interpreter's recursion limit, scaled down).
RecursionLimit == 14

\* Number of process invocations compared by the repeated-run specification.
MaxRuns == 2

\* Number of distinct per-process hash seeds considered.
NumHashSeeds == 2

-----------------------------------------------------------------------------
(* Text *)

NL == "\n"

\* The characters matched by the regular expression class \w, in code point
\* order (ASCII part).
WordChars ==
    << "0", "1", "2", "3", "4", "5", "6", "7", "8", "9",
       "A", "B", "C", "D", "E", "F", "G", "H", "I", "J", "K", "L", "M",
       "N", "O", "P", "Q", "R", "S", "T", "U", "V", "W", "X", "Y", "Z",
       "_",
       "a", "b", "c", "d", "e", "f", "g", "h", "i", "j", "k", "l", "m",
       "n", "o", "p", "q", "r", "s", "t", "u", "v", "w", "x", "y", "z" >>

IsWordChar(c) == \E i \in 1..Len(WordChars) : WordChars[i] = c

\* Rank of a character in code point order.
Ord(c) == CHOOSE i \in 1..Len(WordChars) : WordChars[i] = c

\* Python's str "<": lexicographic by code point, a proper prefix is smaller.
RECURSIVE StrLess(_, _)
StrLess(a, b) ==
    IF b = <<>> THEN FALSE
    ELSE IF a = <<>> THEN TRUE
    ELSE IF Head(a) # Head(b) THEN Ord(Head(a)) < Ord(Head(b))
    ELSE StrLess(Tail(a), Tail(b))

\* ''.join(parts)
RECURSIVE Concat(_)
Concat(parts) ==
    IF parts = <<>> THEN <<>> ELSE Head(parts) \o Concat(Tail(parts))

\* The parts joined last to first.
RECURSIVE JoinBackwards(_, _)
JoinBackwards(sep, parts) ==
    IF parts = <<>> THEN <<>>
    ELSE IF Len(parts) = 1 THEN parts[1]
    ELSE JoinBackwards(sep, Tail(parts)) \o sep \o parts[1]
\* sep.join(parts)
RECURSIVE Join(_, _)
Join(sep, parts) ==
    IF parts = <<>> THEN <<>>
    ELSE IF Len(parts) = 1 THEN parts[1]
    ELSE parts[1] \o sep \o Join(sep, Tail(parts))

\* re.sub(r'^', prefix, docs, flags=re.M): docs is held as its lines.
RECURSIVE PrefixLines(_, _)
PrefixLines(prefix, lines) ==
    IF Len(lines) = 1 THEN <<prefix, lines[1]>>
    ELSE <<prefix, lines[1], NL>> \o PrefixLines(prefix, Tail(lines))

\* item['docs'] is None
NoDocs == <<>>

-----------------------------------------------------------------------------
(* The input: the parsed rustdoc JSON (crate), lines 6-7 *)

\* A type expression {'kind': ..., 'inner': ...}.  The generic arguments
\* args.angle_bracketed.args[i].type are held as the sequence args.
Prim(p) == [kind |-> "primitive", inner |-> p]
Arr(t) == [kind |-> "array", inner |-> [type |-> t]]
Ref(id, args) == [kind |-> "resolved_path", inner |-> [id |-> id, args |-> args]]
TupleTy(ts) == [kind |-> "tuple", inner |-> ts]

\* Entries of crate['index'].
StructItem(name, docs, struct_type, fields_stripped, fields) ==
    [kind |-> "struct", name |-> name, docs |-> docs, attrs |-> <<>>,
     inner |-> [struct_type |-> struct_type,
                fields_stripped |-> fields_stripped, fields |-> fields]]
EnumItem(name, docs, variants) ==
    [kind |-> "enum", name |-> name, docs |-> docs, attrs |-> <<>>,
     inner |-> [variants |-> variants]]
FieldItem(name, docs, attrs, type) ==
    [kind |-> "struct_field", name |-> name, docs |-> docs, attrs |-> attrs,
     inner |-> type]
VariantItem(name, docs, attrs, variant_kind, variant_inner) ==
    [kind |-> "variant", name |-> name, docs |-> docs, attrs |-> attrs,
     inner |-> [variant_kind |-> variant_kind, variant_inner |-> variant_inner]]
TypedefItem(name, type) ==
    [kind |-> "typedef", name |-> name, docs |-> NoDocs, attrs |-> <<>>,
     inner |-> [type |-> type]]
OtherItem(kind, name) ==
    [kind |-> kind, name |-> name, docs |-> NoDocs, attrs |-> <<>>,
     inner |-> <<>>]

\* Entries of crate['paths'].
Summary(crate_id, path, kind) ==
    [crate_id |-> crate_id, path |-> path, kind |-> kind]

\* A raw attribute string, held as head + word + tail: word is the longest
\* run of text up to the first token of tail.
Attr(head, word, tail) == [head |-> head, word |-> word, tail |-> tail]
RenameHead == "#[cbor(rename = \""
RenameTail == "\")]"
RenameAttr(word) == Attr(RenameHead, word, <<RenameTail>>)
DeriveAttr == Attr("#[derive(", <<"C", "l", "o", "n", "e">>, <<")]">>)
\* rename without the blanks around "=": artificial, but a legal attribute
TightRenameAttr(word) == Attr("#[cbor(rename=\"", word, <<RenameTail>>)

N_Event == <<"E", "v", "e", "n", "t">>
N_Transaction == <<"T", "r", "a", "n", "s", "a", "c", "t", "i", "o", "n">>
N_UnverifiedTransaction ==
    <<"U", "n", "v", "e", "r", "i", "f", "i", "e", "d">> \o N_Transaction
N_Call == <<"C", "a", "l", "l">>
N_Marker == <<"M", "a", "r", "k", "e", "r">>
N_Kind == <<"K", "i", "n", "d">>
N_A == <<"A">>

EventPath == <<"oasis_runtime_sdk", "modules", "accounts", "Event">>
TransactionPath == <<"oasis_runtime_sdk", "types", "transaction", "Transaction">>
UnverifiedTransactionPath ==
    <<"oasis_runtime_sdk", "types", "transaction", "UnverifiedTransaction">>

ExternalCrates ==
    (1 :> [name |-> "alloc"]) @@ (2 :> [name |-> "core"])
    @@ (3 :> [name |-> "sk_cbor"])

WellKnownPaths ==
    ("#String" :> Summary(1, <<"alloc", "string", "String">>, "struct"))
    @@ ("#Vec" :> Summary(1, <<"alloc", "vec", "Vec">>, "struct"))
    @@ ("#Option" :> Summary(2, <<"core", "option", "Option">>, "enum"))
    @@ ("#Value" :> Summary(3, <<"sk_cbor", "values", "Value">>, "enum"))

EventPaths ==
    ("#Event" :> Summary(0, EventPath, "enum"))
    @@ ("#vUnit" :> Summary(0, EventPath \o <<"Unit">>, "variant"))
TransactionPaths ==
    ("#Tx" :> Summary(0, TransactionPath, "struct"))
UnverifiedTransactionPaths ==
    ("#UTx" :> Summary(0, UnverifiedTransactionPath, "struct"))

\* A minimal accounts::Event and UnverifiedTransaction shared by the inputs
\* that exercise something else.
SmallEvent ==
    ("#Event" :> EnumItem(N_Event, NoDocs, <<"#vUnit">>))
    @@ ("#vUnit" :> VariantItem(<<"U", "n", "i", "t">>, NoDocs, <<>>, "plain", <<>>))
SmallUnverifiedTransaction ==
    ("#UTx" :> StructItem(N_UnverifiedTransaction, NoDocs, "tuple", FALSE,
                          <<"#t0">>))
    @@ ("#t0" :> FieldItem(<<"0">>, NoDocs, <<>>, Ref("#Vec", <<Prim("u8")>>)))

\* 1: the shapes the generator supports, with a diamond on Call.
CrateReference ==
    [external_crates |-> ExternalCrates,
     paths |-> WellKnownPaths @@ EventPaths @@ TransactionPaths
               @@ UnverifiedTransactionPaths
               @@ ("#Call" :> Summary(0, <<"oasis_runtime_sdk", "types", "transaction", "Call">>, "struct"))
               @@ ("#vAmount" :> Summary(0, EventPath \o <<"Amount">>, "variant"))
               @@ ("#vPair" :> Summary(0, EventPath \o <<"Pair">>, "variant"))
               @@ ("#vXfer" :> Summary(0, EventPath \o <<"Xfer">>, "variant"))
               @@ ("#vOdd" :> Summary(0, EventPath \o <<"Odd">>, "variant")),
     index |->
        ("#Event" :> EnumItem(N_Event, <<"Events emitted by the module.", "">>,
                              <<"#vUnit", "#vAmount", "#vPair", "#vXfer", "#vOdd">>))
        @@ ("#vUnit" :> VariantItem(<<"U", "n", "i", "t">>, <<"Nothing.">>, <<>>, "plain", <<>>))
        @@ ("#vAmount" :> VariantItem(<<"A", "m", "o", "u", "n", "t">>, NoDocs, <<>>,
                                      "tuple", <<Prim("u64")>>))
        @@ ("#vPair" :> VariantItem(<<"P", "a", "i", "r">>, <<"A pair.">>,
                                    <<RenameAttr(<<"p", "r">>)>>,
                                    "tuple", <<Prim("u8"), Ref("#String", <<>>)>>))
        @@ ("#vXfer" :> VariantItem(<<"X", "f", "e", "r">>, NoDocs, <<>>, "struct", <<"#fTo">>))
        @@ ("#fTo" :> FieldItem(<<"t", "o">>, NoDocs, <<>>, Prim("u128")))
        @@ ("#vOdd" :> VariantItem(<<"O", "d", "d">>, NoDocs, <<RenameAttr(<<"o">>)>>, "odd", <<>>))
        @@ ("#Tx" :> StructItem(N_Transaction, <<"A transaction.">>, "plain", FALSE,
                                <<"#fData", "#fNonce", "#fSig", "#fCall", "#fGas">>))
        @@ ("#fData" :> FieldItem(<<"d", "a", "t", "a">>, <<"Payload.">>, <<>>,
                                  Ref("#Vec", <<Prim("u8")>>)))
        @@ ("#fNonce" :> FieldItem(<<"n", "o", "n", "c", "e">>, NoDocs,
                                   <<DeriveAttr, RenameAttr(<<"n">>)>>, Prim("i64")))
        @@ ("#fSig" :> FieldItem(<<"s", "i", "g">>, NoDocs,
                                 <<TightRenameAttr(<<"s">>), RenameAttr(<<"a", "-", "b">>)>>,
                                 Arr(Prim("u8"))))
        @@ ("#fCall" :> FieldItem(<<"c", "a", "l", "l">>, NoDocs, <<>>, Ref("#Call", <<>>)))
        @@ ("#fGas" :> FieldItem(<<"g", "a", "s">>, NoDocs,
                                 <<RenameAttr(<<"g">>), RenameAttr(<<"g", "2">>)>>,
                                 Arr(Arr(Prim("u8")))))
        @@ ("#UTx" :> StructItem(N_UnverifiedTransaction, NoDocs, "tuple", FALSE,
                                 <<"#t0", "#t1">>))
        @@ ("#t0" :> FieldItem(<<"0">>, NoDocs, <<>>, Ref("#Vec", <<Prim("u8")>>)))
        @@ ("#t1" :> FieldItem(<<"1">>, NoDocs, <<>>, Ref("#Vec", <<Ref("#Call", <<>>)>>)))
        @@ ("#Call" :> StructItem(N_Call, NoDocs, "plain", FALSE,
                                  <<"#fMethod", "#fBody", "#fFee">>))
        @@ ("#fMethod" :> FieldItem(<<"m">>, NoDocs, <<>>, Ref("#String", <<>>)))
        @@ ("#fBody" :> FieldItem(<<"b">>, NoDocs, <<>>, Ref("#Value", <<>>)))
        @@ ("#fFee" :> FieldItem(<<"f">>, NoDocs, <<>>,
                                 Ref("#Option", <<Arr(Prim("u32"))>>)))]

\* 2: Transaction has a field of its own type (a direct cycle).
CrateSelfReference ==
    [external_crates |-> ExternalCrates,
     paths |-> WellKnownPaths @@ EventPaths @@ TransactionPaths
               @@ UnverifiedTransactionPaths,
     index |->
        SmallEvent @@ SmallUnverifiedTransaction
        @@ ("#Tx" :> StructItem(N_Transaction, NoDocs, "plain", FALSE,
                                <<"#fId", "#fNext">>))
        @@ ("#fId" :> FieldItem(<<"i", "d">>, NoDocs, <<>>, Prim("u32")))
        @@ ("#fNext" :> FieldItem(<<"n", "e", "x", "t">>, NoDocs, <<>>, Ref("#Tx", <<>>)))]

\* 3: two declarations of different modules share the name A.
CrateSameName ==
    [external_crates |-> ExternalCrates,
     paths |-> WellKnownPaths @@ EventPaths @@ TransactionPaths
               @@ UnverifiedTransactionPaths
               @@ ("#A1" :> Summary(0, <<"oasis_runtime_sdk", "one", "A">>, "struct"))
               @@ ("#A2" :> Summary(0, <<"oasis_runtime_sdk", "two", "A">>, "struct")),
     index |->
        SmallEvent @@ SmallUnverifiedTransaction
        @@ ("#Tx" :> StructItem(N_Transaction, NoDocs, "plain", FALSE,
                                <<"#fOne", "#fTwo">>))
        @@ ("#fOne" :> FieldItem(<<"o", "n", "e">>, NoDocs, <<>>, Ref("#A2", <<>>)))
        @@ ("#fTwo" :> FieldItem(<<"t", "w", "o">>, NoDocs, <<>>, Ref("#A1", <<>>)))
        @@ ("#A1" :> StructItem(N_A, NoDocs, "plain", FALSE, <<"#fX">>))
        @@ ("#fX" :> FieldItem(<<"x">>, NoDocs, <<>>, Prim("u8")))
        @@ ("#A2" :> StructItem(N_A, NoDocs, "tuple", FALSE, <<"#fY">>))
        @@ ("#fY" :> FieldItem(<<"0">>, NoDocs, <<>>, Prim("u16")))]

\* 4: a unit struct (a struct_type that is neither plain nor tuple) with
\* sibling fields after it.
CrateUnitStruct ==
    [external_crates |-> ExternalCrates,
     paths |-> WellKnownPaths @@ EventPaths @@ TransactionPaths
               @@ UnverifiedTransactionPaths
               @@ ("#Marker" :> Summary(0, <<"oasis_runtime_sdk", "types", "Marker">>, "struct"))
               @@ ("#Kind" :> Summary(0, <<"oasis_runtime_sdk", "types", "Kind">>, "enum"))
               @@ ("#vK" :> Summary(0, <<"oasis_runtime_sdk", "types", "Kind", "K">>, "variant")),
     index |->
        SmallEvent
        @@ ("#Tx" :> StructItem(N_Transaction, NoDocs, "plain", FALSE,
                                <<"#fMark", "#fKind">>))
        @@ ("#fMark" :> FieldItem(<<"m", "a", "r", "k">>, NoDocs, <<>>, Ref("#Marker", <<>>)))
        @@ ("#fKind" :> FieldItem(<<"k", "i", "n", "d">>, NoDocs, <<>>, Ref("#Kind", <<>>)))
        @@ ("#Marker" :> StructItem(N_Marker, NoDocs, "unit", FALSE, <<>>))
        @@ ("#Kind" :> EnumItem(N_Kind, NoDocs, <<"#vK">>))
        @@ ("#vK" :> VariantItem(<<"K">>, NoDocs, <<>>, "plain", <<>>))
        @@ ("#UTx" :> StructItem(N_UnverifiedTransaction, NoDocs, "tuple", FALSE,
                                 <<"#t0">>))
        @@ ("#t0" :> FieldItem(<<"0">>, NoDocs, <<>>, Ref("#Marker", <<>>)))]

\* 5: the third root is missing from crate['paths'].
CrateMissingRoot ==
    [external_crates |-> ExternalCrates,
     paths |-> WellKnownPaths @@ EventPaths @@ TransactionPaths,
     index |->
        SmallEvent
        @@ ("#Tx" :> StructItem(N_Transaction, NoDocs, "tuple", TRUE, <<>>))]

\* 6: the crate does not depend on sk_cbor.
CrateNoCbor ==
    [external_crates |-> (1 :> [name |-> "alloc"]) @@ (2 :> [name |-> "core"]),
     paths |-> WellKnownPaths @@ EventPaths @@ TransactionPaths
               @@ UnverifiedTransactionPaths,
     index |->
        SmallEvent @@ SmallUnverifiedTransaction
        @@ ("#Tx" :> StructItem(N_Transaction, NoDocs, "tuple", TRUE, <<>>))]

\* 7: shapes that degrade: a type alias, an item of another kind, an
\* external item, an unhandled primitive and tag, generic arguments of a
\* local struct, a stripped tuple struct.
CrateDegraded ==
    [external_crates |-> ExternalCrates,
     paths |-> WellKnownPaths @@ EventPaths @@ TransactionPaths
               @@ UnverifiedTransactionPaths
               @@ ("#Alias" :> Summary(0, <<"oasis_runtime_sdk", "types", "Alias">>, "typedef"))
               @@ ("#Un" :> Summary(0, <<"oasis_runtime_sdk", "types", "Un">>, "union"))
               @@ ("#Ext" :> Summary(4, <<"serde", "Ext">>, "struct"))
               @@ ("#Gen" :> Summary(0, <<"oasis_runtime_sdk", "types", "Gen">>, "struct"))
               @@ ("#Hidden" :> Summary(0, <<"oasis_runtime_sdk", "types", "Hidden">>, "struct")),
     index |->
        SmallEvent
        @@ ("#Tx" :> StructItem(N_Transaction, NoDocs, "plain", FALSE,
                                <<"#fAlias", "#fUn", "#fExt", "#fBool", "#fTup", "#fGen", "#fGen2">>))
        @@ ("#fAlias" :> FieldItem(<<"a">>, NoDocs, <<>>, Ref("#Alias", <<>>)))
        @@ ("#fUn" :> FieldItem(<<"u">>, NoDocs, <<>>, Ref("#Un", <<>>)))
        @@ ("#fExt" :> FieldItem(<<"e">>, NoDocs, <<>>, Ref("#Ext", <<>>)))
        @@ ("#fBool" :> FieldItem(<<"b">>, NoDocs, <<>>, Prim("bool")))
        @@ ("#fTup" :> FieldItem(<<"t">>, NoDocs, <<>>, TupleTy(<<Prim("u8")>>)))
        @@ ("#fGen" :> FieldItem(<<"g">>, NoDocs, <<>>,
                                 Ref("#Gen", <<Ref("#Hidden", <<>>)>>)))
        @@ ("#fGen2" :> FieldItem(<<"h">>, NoDocs, <<>>,
                                  Ref("#Gen", <<Prim("u8")>>)))
        @@ ("#Alias" :> TypedefItem(<<"A", "l", "i", "a", "s">>,
                                    Ref("#Vec", <<Ref("#Gen", <<>>)>>)))
        @@ ("#Un" :> OtherItem("union", <<"U", "n">>))
        @@ ("#Gen" :> StructItem(<<"G", "e", "n">>, NoDocs, "plain", FALSE, <<>>))
        @@ ("#Hidden" :> StructItem(<<"H", "i", "d", "d", "e", "n">>, NoDocs, "plain",
                                    FALSE, <<>>))
        @@ ("#UTx" :> StructItem(N_UnverifiedTransaction, NoDocs, "tuple", TRUE, <<>>))]

\* 8: a reference to an identifier that is neither in crate['index'] nor
\* in crate['paths'].
CrateDangling ==
    [external_crates |-> ExternalCrates,
     paths |-> WellKnownPaths @@ EventPaths @@ TransactionPaths
               @@ UnverifiedTransactionPaths,
     index |->
        SmallEvent @@ SmallUnverifiedTransaction
        @@ ("#Tx" :> StructItem(N_Transaction, NoDocs, "plain", FALSE,
                                <<"#fGhost", "#fAfter">>))
        @@ ("#fGhost" :> FieldItem(<<"g">>, NoDocs, <<>>, Ref("#Ghost", <<>>)))
        @@ ("#fAfter" :> FieldItem(<<"a">>, NoDocs, <<>>, Prim("u8")))]

\* 9: accounts::Event is the enum with the variants Unit and Amount(u64).
CrateUnitAmount ==
    [external_crates |-> ExternalCrates,
     paths |-> WellKnownPaths @@ EventPaths @@ TransactionPaths
               @@ UnverifiedTransactionPaths
               @@ ("#vAmount" :> Summary(0, EventPath \o <<"Amount">>, "variant")),
     index |->
        SmallUnverifiedTransaction
        @@ ("#Event" :> EnumItem(N_Event, NoDocs, <<"#vUnit", "#vAmount">>))
        @@ ("#vUnit" :> VariantItem(<<"U", "n", "i", "t">>, NoDocs, <<>>, "plain", <<>>))
        @@ ("#vAmount" :> VariantItem(<<"A", "m", "o", "u", "n", "t">>, NoDocs, <<>>,
                                      "tuple", <<Prim("u64")>>))
        @@ ("#Tx" :> StructItem(N_Transaction, NoDocs, "tuple", TRUE, <<>>))]

\* 10: a tuple Transaction with one field of every integer primitive.
CratePrimitives ==
    [external_crates |-> ExternalCrates,
     paths |-> WellKnownPaths @@ EventPaths @@ TransactionPaths
               @@ UnverifiedTransactionPaths,
     index |->
        SmallEvent @@ SmallUnverifiedTransaction
        @@ ("#Tx" :> StructItem(N_Transaction, NoDocs, "tuple", FALSE,
                                <<"#p0", "#p1", "#p2", "#p3", "#p4",
                                  "#p5", "#p6", "#p7", "#p8", "#p9">>))
        @@ ("#p0" :> FieldItem(<<"0">>, NoDocs, <<>>, Prim("u8")))
        @@ ("#p1" :> FieldItem(<<"1">>, NoDocs, <<>>, Prim("i64")))
        @@ ("#p2" :> FieldItem(<<"2">>, NoDocs, <<>>, Prim("u16")))
        @@ ("#p3" :> FieldItem(<<"3">>, NoDocs, <<>>, Prim("i128")))
        @@ ("#p4" :> FieldItem(<<"4">>, NoDocs, <<>>, Prim("u32")))
        @@ ("#p5" :> FieldItem(<<"5">>, NoDocs, <<>>, Prim("i8")))
        @@ ("#p6" :> FieldItem(<<"6">>, NoDocs, <<>>, Prim("u64")))
        @@ ("#p7" :> FieldItem(<<"7">>, NoDocs, <<>>, Prim("i16")))
        @@ ("#p8" :> FieldItem(<<"8">>, NoDocs, <<>>, Prim("u128")))
        @@ ("#p9" :> FieldItem(<<"9">>, NoDocs, <<>>, Prim("i32")))]

\* 11: a tuple Transaction whose fields are marked stripped although one
\* is listed, of a struct type nothing else refers to.
CrateStrippedTuple ==
    [external_crates |-> ExternalCrates,
     paths |-> WellKnownPaths @@ EventPaths @@ TransactionPaths
               @@ UnverifiedTransactionPaths
               @@ ("#Secret" :> Summary(0, <<"oasis_runtime_sdk", "types", "Secret">>, "struct")),
     index |->
        SmallEvent @@ SmallUnverifiedTransaction
        @@ ("#Tx" :> StructItem(N_Transaction, NoDocs, "tuple", TRUE, <<"#s0">>))
        @@ ("#s0" :> FieldItem(<<"0">>, NoDocs, <<>>, Ref("#Secret", <<>>)))
        @@ ("#Secret" :> StructItem(<<"S", "e", "c", "r", "e", "t">>, NoDocs, "plain",
                                    FALSE, <<"#fKey">>))
        @@ ("#fKey" :> FieldItem(<<"k", "e", "y">>, NoDocs, <<>>, Prim("u8")))]

\* 12: an Event and a Transaction whose members are not in alphabetical
\* order and repeat a wire name.
CrateRepeated ==
    [external_crates |-> ExternalCrates,
     paths |-> WellKnownPaths @@ EventPaths @@ TransactionPaths
               @@ UnverifiedTransactionPaths
               @@ ("#vB" :> Summary(0, EventPath \o <<"B">>, "variant"))
               @@ ("#vA" :> Summary(0, EventPath \o <<"A">>, "variant"))
               @@ ("#vC" :> Summary(0, EventPath \o <<"C">>, "variant")),
     index |->
        SmallUnverifiedTransaction
        @@ ("#Event" :> EnumItem(N_Event, NoDocs, <<"#vB", "#vA", "#vC">>))
        @@ ("#vB" :> VariantItem(<<"B">>, NoDocs, <<>>, "plain", <<>>))
        @@ ("#vA" :> VariantItem(<<"A">>, NoDocs, <<>>, "plain", <<>>))
        @@ ("#vC" :> VariantItem(<<"C">>, NoDocs, <<RenameAttr(<<"A">>)>>, "plain", <<>>))
        @@ ("#Tx" :> StructItem(N_Transaction, NoDocs, "plain", FALSE,
                                <<"#fB", "#fA", "#fC">>))
        @@ ("#fB" :> FieldItem(<<"b">>, NoDocs, <<>>, Prim("u8")))
        @@ ("#fA" :> FieldItem(<<"a">>, NoDocs, <<>>, Prim("u16")))
        @@ ("#fC" :> FieldItem(<<"c">>, NoDocs, <<RenameAttr(<<"a">>)>>, Prim("u32")))]

\* 13-15: the path table lacks one well-known declaration, which no type
\* of the crate refers to.
CrateWithout(rdid) ==
    [external_crates |-> ExternalCrates,
     paths |-> [r \in DOMAIN WellKnownPaths \ {rdid} |-> WellKnownPaths[r]]
               @@ EventPaths @@ TransactionPaths @@ UnverifiedTransactionPaths,
     index |->
        SmallEvent
        @@ ("#Tx" :> StructItem(N_Transaction, NoDocs, "tuple", TRUE, <<>>))
        @@ ("#UTx" :> StructItem(N_UnverifiedTransaction, NoDocs, "tuple", TRUE, <<>>))]

Crates ==
    << CrateReference, CrateSelfReference, CrateSameName, CrateUnitStruct,
       CrateMissingRoot, CrateNoCbor, CrateDegraded, CrateDangling,
       CrateUnitAmount, CratePrimitives, CrateStrippedTuple, CrateRepeated,
       CrateWithout("#String"), CrateWithout("#Vec"), CrateWithout("#Option") >>

\* crate = json.load(crate_file)
crate == Crates[sid]

-----------------------------------------------------------------------------
(* Module-level tables, lines 9-20 *)

\* UsedType = namedtuple('UsedType', ('ref', 'source')); the memo table is a
\* dict, which keeps its keys in insertion order: a sequence of
\* [rdid, ref, source].
UsedType(rdid, ref, source) == [rdid |-> rdid, ref |-> ref, source |-> source]

\* The memo check of lines 41 and 108 left out.
MemoHasNever(memo, rdid) == FALSE
MemoHas(memo, rdid) == \E i \in 1..Len(memo) : memo[i].rdid = rdid
MemoGet(memo, rdid) == memo[CHOOSE i \in 1..Len(memo) : memo[i].rdid = rdid]
\* The table keeps the latest entry only.
MemoPutLatestOnly(memo, value) == <<value>>
\* used_types_by_rdid[rdid] = value
MemoPut(memo, value) ==
    IF MemoHas(memo, value.rdid)
    THEN [i \in 1..Len(memo) |->
            IF memo[i].rdid = value.rdid THEN value ELSE memo[i]]
    ELSE Append(memo, value)

this_crate_id == 0

HasExternalCrate(name) ==
    \E c \in DOMAIN crate.external_crates : crate.external_crates[c].name = name
external_crate_ids_by_name(name) ==
    CHOOSE c \in DOMAIN crate.external_crates :
        crate.external_crates[c].name = name

HasPath(crate_id, path, kind) ==
    \E r \in DOMAIN crate.paths : crate.paths[r] = Summary(crate_id, path, kind)
rdids_by_path(crate_id, path, kind) ==
    CHOOSE r \in DOMAIN crate.paths : crate.paths[r] = Summary(crate_id, path, kind)

\* The four lookups of lines 17-20, as (crate name, path, kind).
WellKnown ==
    << <<"alloc", <<"alloc", "string", "String">>, "struct">>,
       <<"alloc", <<"alloc", "vec", "Vec">>, "struct">>,
       <<"core", <<"core", "option", "Option">>, "enum">>,
       <<"sk_cbor", <<"sk_cbor", "values", "Value">>, "enum">> >>

\* The lookups taken never to fail.
WellKnownFoundAlways(k) == TRUE
WellKnownFound(k) ==
    /\ HasExternalCrate(WellKnown[k][1])
    /\ HasPath(external_crate_ids_by_name(WellKnown[k][1]),
               WellKnown[k][2], WellKnown[k][3])
WellKnownRdid(k) ==
    rdids_by_path(external_crate_ids_by_name(WellKnown[k][1]),
                  WellKnown[k][2], WellKnown[k][3])

String_rdid == WellKnownRdid(1)
Vec_rdid == WellKnownRdid(2)
Option_rdid == WellKnownRdid(3)
cbor_Value_rdid == WellKnownRdid(4)

\* The three root visits of lines 176-178.
Roots ==
    << [fn |-> "visit_enum", path |-> EventPath, kind |-> "enum"],
       [fn |-> "visit_struct", path |-> TransactionPath, kind |-> "struct"],
       [fn |-> "visit_struct", path |-> UnverifiedTransactionPath, kind |-> "struct"] >>

-----------------------------------------------------------------------------
(* What the visitors print and build *)

\* repr() of an entry of crate['paths'], of an item and of a resolved path,
\* abbreviated to the parts that identify it.
SummaryRepr(rdid) ==
    <<"crate_id", ToString(crate.paths[rdid].crate_id), "path">>
    \o crate.paths[rdid].path \o <<"kind", crate.paths[rdid].kind>>
ItemRepr(item) == <<"name">> \o item.name \o <<"kind", item.kind>>

NotModeled == "oasis.types.NotModeled"

\* m = re.match(r'#\[cbor\(rename = "(\w+)"\)]', attr); m is not None
RenameMatches(attr) ==
    /\ attr.head = RenameHead
    /\ attr.word # <<>>
    /\ \A i \in 1..Len(attr.word) : IsWordChar(attr.word[i])
    /\ attr.tail # <<>>
    /\ attr.tail[1] = RenameTail

\* The attributes ignored.
RenameIgnored(name, attrs) == name

\* The loop of lines 30-34 and 69-73: name after the attributes attrs.
RECURSIVE RenameLoop(_, _)
RenameLoop(name, attrs) ==
    IF attrs = <<>> THEN name
    ELSE RenameLoop(IF RenameMatches(Head(attrs)) THEN Head(attrs).word ELSE name,
                    Tail(attrs))

\* Lines 27-28: the documentation block of a field.
FieldDocs(item) ==
    IF item.docs # NoDocs
    THEN <<"    /**", NL>> \o PrefixLines("     * ", item.docs) \o <<NL, "     */", NL>>
    ELSE <<>>

\* Lines 46-47 and 113-114: the documentation block of a declaration.
DeclDocs(item) ==
    IF item.docs # NoDocs
    THEN <<"/**", NL>> \o PrefixLines(" * ", item.docs) \o <<NL, " */", NL>>
    ELSE <<>>

\* Lines 82-83 and 92-93: the documentation block inside a variant object.
VariantDocs(item) ==
    IF item.docs # NoDocs
    THEN <<"        /**", NL>> \o PrefixLines("         * ", item.docs)
         \o <<NL, "         */", NL>>
    ELSE <<>>

\* Lines 76-77 and 100-101: documentation as line comments.
VariantLineDocs(item) ==
    IF item.docs # NoDocs
    THEN PrefixLines("    // ", item.docs) \o <<NL>>
    ELSE <<>>

\* Line 35: the text of a field, given its rendered type.
FieldSource(item, type_source) ==
    FieldDocs(item) \o <<"    ">> \o RenameLoop(item.name, item.attrs)
    \o <<": ">> \o type_source \o <<";", NL>>

\* Lines 48-59: the text of a struct declaration, given the rendered
\* fields (plain) or field types (tuple).
StructSource(item, parts) ==
    DeclDocs(item) \o
    (IF item.inner.struct_type = "plain"
     THEN <<"export interface ">> \o item.name \o <<" {", NL>>
          \o Concat(parts) \o <<"}", NL>>
     ELSE IF item.inner.struct_type = "tuple"
     THEN IF item.inner.fields_stripped
          THEN <<"export type ">> \o item.name
               \o <<" =", " ", NotModeled, "; // stripped tuple type", NL>>
          ELSE <<"export type ">> \o item.name \o <<" =", " [">>
               \o Join(<<", ">>, parts) \o <<"];", NL>>
     ELSE <<"export type ">> \o item.name
          \o <<" =", " ", NotModeled, "; // unhandled struct_type ",
               item.inner.struct_type>>)

\* The special case of line 84 left out: one inner type is bracketed too.
VariantSourceAlwaysBracketed(item, parts) ==
    LET name == RenameLoop(item.name, item.attrs)
        kind == item.inner.variant_kind
    IN  IF kind = "plain"
        THEN VariantLineDocs(item) \o <<"    '">> \o name \o <<"'">>
        ELSE IF kind = "tuple"
        THEN <<"    {", NL>> \o VariantDocs(item) \o <<"        ">> \o name \o <<": ">>
             \o <<"[">> \o Join(<<", ">>, parts) \o <<"]">>
             \o <<";", NL, "    }">>
        ELSE IF kind = "struct"
        THEN <<"    {", NL>> \o VariantDocs(item) \o <<"        ">> \o name \o <<": ">>
             \o <<"{", NL>> \o Concat(parts) \o <<"}">>
             \o <<";", NL, "    }">>
        ELSE VariantLineDocs(item)
             \o <<"    ", NotModeled, " /* unhandled kind ", kind, " */">>

\* Lines 74-103: the text of a variant, given the rendered inner types
\* (tuple) or fields (struct).
VariantSource(item, parts) ==
    LET name == RenameLoop(item.name, item.attrs)
        kind == item.inner.variant_kind
    IN  IF kind = "plain"
        THEN VariantLineDocs(item) \o <<"    '">> \o name \o <<"'">>
        ELSE IF kind = "tuple"
        THEN <<"    {", NL>> \o VariantDocs(item) \o <<"        ">> \o name \o <<": ">>
             \o (IF Len(item.inner.variant_inner) = 1
                 THEN parts[1]
                 ELSE <<"[">> \o Join(<<", ">>, parts) \o <<"]">>)
             \o <<";", NL, "    }">>
        ELSE IF kind = "struct"
        THEN <<"    {", NL>> \o VariantDocs(item) \o <<"        ">> \o name \o <<": ">>
             \o <<"{", NL>> \o Concat(parts) \o <<"}">>
             \o <<";", NL, "    }">>
        ELSE VariantLineDocs(item)
             \o <<"    ", NotModeled, " /* unhandled kind ", kind, " */">>

\* Line 115: the text of an enum declaration, given the rendered variants.
EnumSource(item, parts) ==
    DeclDocs(item) \o <<"export type ">> \o item.name \o <<" =", NL>>
    \o Join(<<" |", NL>>, parts) \o <<";", NL>>

\* Every primitive taken for a native number.
PrimitiveSourceAllNumber(inner) == <<"number /* ", inner, " */">>
\* Lines 158-166: a primitive.
PrimitiveSource(inner) ==
    IF inner \in {"u8", "u16", "u32", "i8", "i16", "i32"}
    THEN <<"number /* ", inner, " */">>
    ELSE IF inner \in {"u64", "i64"}
    THEN <<"oasis.types.longnum /* ", inner, " */">>
    ELSE IF inner \in {"u128", "i128"}
    THEN <<"Uint8Array /* ", inner, " */">>
    ELSE <<"any /* unhandled primitive ", inner, " */">>
PrimitiveHandled(inner) ==
    inner \in {"u8", "u16", "u32", "i8", "i16", "i32", "u64", "i64", "u128", "i128"}

\* The special case of lines 132 and 168 left out.
IsU8Never(type) == FALSE

\* Lines 132 and 168: the element type is the primitive u8.
IsU8(type) == type.kind = "primitive" /\ type.inner = "u8"

\* Iteration order decided by the hashes of the keys, as for a set.
DictValuesBySeed(memo) ==
    IF hashseed = 1 THEN memo
    ELSE [i \in 1..Len(memo) |-> memo[Len(memo) + 1 - i]]

\* dict.values(): insertion order, whatever the hash seed.
DictValues(memo) == memo

\* The values left in the order given.
Unsorted(values) == values

\* sorted(values, key=lambda used_type: used_type.ref): a stable sort.
RECURSIVE InsertByRef(_, _)
InsertByRef(sorted, x) ==
    IF sorted = <<>> THEN <<x>>
    ELSE IF StrLess(x.ref, Head(sorted).ref) THEN <<x>> \o sorted
    ELSE <<Head(sorted)>> \o InsertByRef(Tail(sorted), x)
RECURSIVE SortedByRef(_)
SortedByRef(values) ==
    IF values = <<>> THEN <<>>
    ELSE InsertByRef(SortedByRef(SubSeq(values, 1, Len(values) - 1)),
                     values[Len(values)])

\* Line 179: what print writes.
Printed(memo) ==
    LET ordered == SortedByRef(DictValues(memo))
    IN  Join(<<NL>>, [i \in 1..Len(ordered) |-> ordered[i].source]) \o <<NL>>

-----------------------------------------------------------------------------
(* The interpreter: calls, returns and uncaught exceptions *)

NoType == [kind |-> "", inner |-> ""]
NoReturn == [fn |-> "", id |-> "", ty |-> NoType, val |-> <<>>]

\* A call that has not started: fn(id) for the visitors of an identifier,
\* fn(ty) for the visitors of a type expression or resolved path.
Frame(fn, id, ty) ==
    [fn |-> fn, id |-> id, ty |-> ty, phase |-> "call", acc |-> <<>>]

Top == stack[Len(stack)]
Running(fn) == pc = "roots" /\ stack # <<>> /\ Top.fn = fn

\* An exception nobody catches ends the process.
Raise(e) ==
    /\ pc' = "crashed"
    /\ error' = e
    /\ UNCHANGED <<stack, ret, returned, root>>

\* return val: the caller collects the value; a root visit that returns
\* lets the module-level code go on.
Return(val) ==
    /\ ret' = [fn |-> Top.fn, id |-> Top.id, ty |-> Top.ty, val |-> val]
    /\ stack' = [i \in 1..(Len(stack) - 1) |->
                    IF i = Len(stack) - 1
                    THEN [stack[i] EXCEPT !.acc = Append(@, val)]
                    ELSE stack[i]]
    /\ root' = IF Len(stack) = 1 THEN root + 1 ELSE root
    /\ returned' = IF Top.fn \in {"visit_struct", "visit_enum"}
                   THEN Append(returned, [id |-> Top.id, val |-> val])
                   ELSE returned
    /\ UNCHANGED <<pc, error>>

\* A call from the running function.
Call(frame) ==
    IF Len(stack) >= RecursionLimit
    THEN Raise("RecursionError")
    ELSE /\ stack' = Append([stack EXCEPT ![Len(stack)].phase = "body"], frame)
         /\ UNCHANGED <<pc, error, ret, returned, root>>

\* The message a function prints on entry, once.
Traced(line) == IF Top.phase = "call" THEN Append(stderr, line) ELSE stderr

-----------------------------------------------------------------------------
(* The visitors, lines 23-173 *)

render_field ==
    /\ Running("render_field")
    /\ UNCHANGED rofl_vars
    /\ UNCHANGED <<sid, hashseed, used_types_by_rdid, stdout, run, prev_stdout>>
    /\ LET rdid == Top.id
           item == crate.index[rdid]
       IN  IF rdid \notin DOMAIN crate.index
           THEN Raise("KeyError") /\ UNCHANGED stderr
           ELSE /\ stderr' = Traced(<<"rendering field">> \o ItemRepr(item))
                /\ IF Top.acc = <<>>
                   THEN Call(Frame("visit_rdtype", "", item.inner))
                   ELSE Return(FieldSource(item, Top.acc[1]))

\* The stripped mark of a tuple struct disregarded.
StructChildrenOfStripped(item) ==
    IF item.inner.struct_type \in {"plain", "tuple"} THEN item.inner.fields ELSE <<>>
\* The fields a struct visit renders: none for a stripped tuple struct or
\* an unhandled struct_type.
StructChildren(item) ==
    IF \/ item.inner.struct_type = "plain"
       \/ item.inner.struct_type = "tuple" /\ ~item.inner.fields_stripped
    THEN item.inner.fields
    ELSE <<>>

\* The diagnostic of line 58 left out.
StructTypeAlwaysHandled(struct_type) == TRUE
StructTypeHandled(struct_type) == struct_type \in {"plain", "tuple"}

visit_struct ==
    /\ Running("visit_struct")
    /\ UNCHANGED rofl_vars
    /\ UNCHANGED <<sid, hashseed, stdout, run, prev_stdout>>
    /\ LET rdid == Top.id
           item == crate.index[rdid]
           trace == Traced(<<"visiting struct">> \o SummaryRepr(rdid))
           k == Len(Top.acc) + 1
       IN  IF rdid \notin DOMAIN crate.paths
           THEN Raise("KeyError") /\ UNCHANGED <<stderr, used_types_by_rdid>>
           ELSE IF Top.phase = "call" /\ MemoHas(used_types_by_rdid, rdid)
           THEN /\ Return(MemoGet(used_types_by_rdid, rdid).ref)
                /\ stderr' = trace
                /\ UNCHANGED used_types_by_rdid
           ELSE IF rdid \notin DOMAIN crate.index
           THEN Raise("KeyError") /\ stderr' = trace /\ UNCHANGED used_types_by_rdid
           ELSE IF k <= Len(StructChildren(item))
           THEN /\ stderr' = trace
                /\ UNCHANGED used_types_by_rdid
                /\ IF item.inner.struct_type = "plain"
                   THEN Call(Frame("render_field", item.inner.fields[k], NoType))
                   ELSE IF item.inner.fields[k] \notin DOMAIN crate.index
                   THEN Raise("KeyError")
                   ELSE Call(Frame("visit_rdtype", "",
                                   crate.index[item.inner.fields[k]].inner))
           ELSE /\ stderr' = IF StructTypeHandled(item.inner.struct_type)
                             THEN trace
                             ELSE Append(trace, <<"unhandled struct_type",
                                                  item.inner.struct_type>>)
                /\ used_types_by_rdid' =
                       MemoPut(used_types_by_rdid,
                               UsedType(rdid, item.name, StructSource(item, Top.acc)))
                /\ Return(item.name)

\* What a variant visit renders: inner types (tuple) or fields (struct).
VariantChildren(item) ==
    IF item.inner.variant_kind \in {"tuple", "struct"}
    THEN item.inner.variant_inner
    ELSE <<>>

VariantKindHandled(variant_kind) == variant_kind \in {"plain", "tuple", "struct"}

render_variant ==
    /\ Running("render_variant")
    /\ UNCHANGED rofl_vars
    /\ UNCHANGED <<sid, hashseed, used_types_by_rdid, stdout, run, prev_stdout>>
    /\ LET rdid == Top.id
           item == crate.index[rdid]
           trace == Traced(<<"rendering variant">> \o SummaryRepr(rdid))
           k == Len(Top.acc) + 1
       IN  IF rdid \notin DOMAIN crate.paths
           THEN Raise("KeyError") /\ UNCHANGED stderr
           ELSE IF rdid \notin DOMAIN crate.index
           THEN Raise("KeyError") /\ stderr' = trace
           ELSE IF k <= Len(VariantChildren(item))
           THEN /\ stderr' = trace
                /\ IF item.inner.variant_kind = "tuple"
                   THEN Call(Frame("visit_rdtype", "", item.inner.variant_inner[k]))
                   ELSE Call(Frame("render_field", item.inner.variant_inner[k], NoType))
           ELSE /\ stderr' = IF VariantKindHandled(item.inner.variant_kind)
                             THEN trace
                             ELSE Append(trace, <<"unhandled variant kind",
                                                  item.inner.variant_kind>>)
                /\ Return(VariantSource(item, Top.acc))

visit_enum ==
    /\ Running("visit_enum")
    /\ UNCHANGED rofl_vars
    /\ UNCHANGED <<sid, hashseed, stdout, run, prev_stdout>>
    /\ LET rdid == Top.id
           item == crate.index[rdid]
           trace == Traced(<<"visiting enum">> \o SummaryRepr(rdid))
           k == Len(Top.acc) + 1
       IN  IF rdid \notin DOMAIN crate.paths
           THEN Raise("KeyError") /\ UNCHANGED <<stderr, used_types_by_rdid>>
           ELSE IF Top.phase = "call" /\ MemoHas(used_types_by_rdid, rdid)
           THEN /\ Return(MemoGet(used_types_by_rdid, rdid).ref)
                /\ stderr' = trace
                /\ UNCHANGED used_types_by_rdid
           ELSE IF rdid \notin DOMAIN crate.index
           THEN Raise("KeyError") /\ stderr' = trace /\ UNCHANGED used_types_by_rdid
           ELSE IF k <= Len(item.inner.variants)
           THEN /\ stderr' = trace
                /\ UNCHANGED used_types_by_rdid
                /\ Call(Frame("render_variant", item.inner.variants[k], NoType))
           ELSE /\ stderr' = trace
                /\ used_types_by_rdid' =
                       MemoPut(used_types_by_rdid,
                               UsedType(rdid, item.name, EnumSource(item, Top.acc)))
                /\ Return(item.name)

\* The alias taken for a declaration of its own: registered and referred
\* to by name, its target left unvisited.
visit_typedef_as_declaration ==
    /\ Running("visit_typedef")
    /\ UNCHANGED rofl_vars
    /\ UNCHANGED <<sid, hashseed, stdout, run, prev_stdout>>
    /\ LET rdid == Top.id
           item == crate.index[rdid]
       IN  /\ stderr' = Traced(<<"visiting typedef">> \o SummaryRepr(rdid))
           /\ used_types_by_rdid' =
                  MemoPut(used_types_by_rdid,
                          UsedType(rdid, item.name,
                                   <<"export type ">> \o item.name \o <<" =", " ", NotModeled>>))
           /\ Return(item.name)

visit_typedef ==
    /\ Running("visit_typedef")
    /\ UNCHANGED rofl_vars
    /\ UNCHANGED <<sid, hashseed, used_types_by_rdid, stdout, run, prev_stdout>>
    /\ LET rdid == Top.id
           item == crate.index[rdid]
           trace == Traced(<<"visiting typedef">> \o SummaryRepr(rdid))
       IN  IF rdid \notin DOMAIN crate.paths
           THEN Raise("KeyError") /\ UNCHANGED stderr
           ELSE IF rdid \notin DOMAIN crate.index
           THEN Raise("KeyError") /\ stderr' = trace
           ELSE /\ stderr' = trace
                /\ IF Top.acc = <<>>
                   THEN Call(Frame("visit_rdtype", "", item.inner.type))
                   ELSE Return(Top.acc[1])

\* A reference with generic arguments taken for a wrapper of its first
\* argument, as Vec and Option are.
DeclarationVisitThroughArguments(item, rdid, args) ==
    IF args # <<>>
    THEN Frame("visit_rdtype", "", args[1])
    ELSE Frame(IF item.kind = "struct" THEN "visit_struct"
               ELSE IF item.kind = "enum" THEN "visit_enum"
               ELSE "visit_typedef", rdid, NoType)
\* Lines 142-148: the call an indexed struct, enum or typedef is visited
\* by; the generic arguments of the reference are not passed on.
DeclarationVisit(item, rdid, args) ==
    Frame(IF item.kind = "struct" THEN "visit_struct"
          ELSE IF item.kind = "enum" THEN "visit_enum"
          ELSE "visit_typedef", rdid, NoType)

visit_resolved_path ==
    /\ Running("visit_resolved_path")
    /\ UNCHANGED rofl_vars
    /\ UNCHANGED <<sid, hashseed, used_types_by_rdid, stdout, run, prev_stdout>>
    /\ LET resolved_path == Top.ty
           rdid == resolved_path.id
           args == resolved_path.args
           item == crate.index[rdid]
           trace == Traced(<<"visiting resolved path", "id", rdid>>)
       IN  IF rdid = String_rdid
           THEN stderr' = trace /\ Return(<<"string">>)
           ELSE IF rdid = Vec_rdid
           THEN /\ stderr' = trace
                /\ IF args = <<>> THEN Raise("IndexError")
                   ELSE IF IsU8(args[1]) THEN Return(<<"Uint8Array">>)
                   ELSE IF Top.acc = <<>> THEN Call(Frame("visit_rdtype", "", args[1]))
                   ELSE Return(Top.acc[1] \o <<"[]">>)
           ELSE IF rdid = Option_rdid
           THEN /\ stderr' = trace
                /\ IF args = <<>> THEN Raise("IndexError")
                   ELSE IF Top.acc = <<>> THEN Call(Frame("visit_rdtype", "", args[1]))
                   ELSE Return(<<"(">> \o Top.acc[1] \o <<" | null)">>)
           ELSE IF rdid = cbor_Value_rdid
           THEN stderr' = trace /\ Return(<<"unknown">>)
           ELSE IF rdid \notin DOMAIN crate.index
           THEN IF rdid \notin DOMAIN crate.paths
                THEN stderr' = trace /\ Raise("KeyError")
                ELSE /\ stderr' = Append(trace, <<"unindexed resolved path id", rdid, "path">>
                                                \o SummaryRepr(rdid))
                     /\ Return(<<NotModeled, " /* unindexed resolved path id ", rdid,
                                 " path ">> \o SummaryRepr(rdid) \o <<" */">>)
           ELSE IF item.kind \in {"struct", "enum", "typedef"}
           THEN /\ stderr' = trace
                /\ IF Top.acc = <<>>
                   THEN Call(DeclarationVisit(item, rdid, args))
                   ELSE Return(Top.acc[1])
           ELSE /\ stderr' = Append(trace, <<"unhandled item kind", item.kind>>)
                /\ Return(<<"any /* unhandled item ", rdid, " kind ", item.kind, " */">>)

visit_rdtype ==
    /\ Running("visit_rdtype")
    /\ UNCHANGED rofl_vars
    /\ UNCHANGED <<sid, hashseed, used_types_by_rdid, stdout, run, prev_stdout>>
    /\ LET rdtype == Top.ty
       IN  IF rdtype.kind = "resolved_path"
           THEN /\ UNCHANGED stderr
                /\ IF Top.acc = <<>>
                   THEN Call(Frame("visit_resolved_path", "", rdtype.inner))
                   ELSE Return(Top.acc[1])
           ELSE IF rdtype.kind = "primitive"
           THEN /\ stderr' = IF PrimitiveHandled(rdtype.inner) THEN stderr
                             ELSE Append(stderr, <<"unhandled primitive", rdtype.inner>>)
                /\ Return(PrimitiveSource(rdtype.inner))
           ELSE IF rdtype.kind = "array"
           THEN /\ UNCHANGED stderr
                /\ IF IsU8(rdtype.inner.type) THEN Return(<<"Uint8Array">>)
                   ELSE IF Top.acc = <<>>
                   THEN Call(Frame("visit_rdtype", "", rdtype.inner.type))
                   ELSE Return(Top.acc[1] \o <<"[]">>)
           ELSE /\ stderr' = Append(stderr, <<"unhandled tag", rdtype.kind, "content",
                                              "repr(inner)">>)
                /\ Return(<<"any /* unhandled tag ", rdtype.kind, " content ",
                            "repr(inner)", " */">>)

-----------------------------------------------------------------------------
(* The module-level code, lines 11-20 and 176-179 *)

\* Lines 17-20: the well-known identifiers are looked up.
ModuleInit ==
    /\ pc = "init"
    /\ UNCHANGED rofl_vars
    /\ IF \A k \in 1..Len(WellKnown) : WellKnownFound(k)
       THEN pc' = "roots" /\ UNCHANGED error
       ELSE pc' = "crashed" /\ error' = "KeyError"
    /\ UNCHANGED <<sid, hashseed, root, stack, ret, returned, used_types_by_rdid,
                   stderr, stdout, run, prev_stdout>>

\* Lines 176-178: the next root is looked up and its visit called.
VisitRoot ==
    /\ pc = "roots" /\ stack = <<>> /\ root < Len(Roots)
    /\ UNCHANGED rofl_vars
    /\ LET r == Roots[root + 1]
       IN  IF HasPath(this_crate_id, r.path, r.kind)
           THEN /\ stack' = <<Frame(r.fn, rdids_by_path(this_crate_id, r.path, r.kind),
                                    NoType)>>
                /\ UNCHANGED <<pc, error>>
           ELSE /\ pc' = "crashed" /\ error' = "KeyError"
                /\ UNCHANGED stack
    /\ UNCHANGED <<sid, hashseed, root, ret, returned, used_types_by_rdid, stderr,
                   stdout, run, prev_stdout>>

\* Line 179: the memo table is sorted and printed.
Emit ==
    /\ pc = "roots" /\ stack = <<>> /\ root = Len(Roots)
    /\ UNCHANGED rofl_vars
    /\ stdout' = stdout \o Printed(used_types_by_rdid)
    /\ pc' = "done"
    /\ UNCHANGED <<sid, hashseed, root, stack, ret, returned, used_types_by_rdid,
                   stderr, error, run, prev_stdout>>

\* A fresh process is started on the same input.
Rerun ==
    /\ pc \in {"done", "crashed"}
    /\ UNCHANGED rofl_vars
    /\ run < MaxRuns
    /\ run' = run + 1
    /\ prev_stdout' = stdout
    /\ \E seed \in 1..NumHashSeeds : hashseed' = seed
    /\ pc' = "init" /\ root' = 0 /\ stack' = <<>> /\ ret' = NoReturn
    /\ returned' = <<>>
    /\ used_types_by_rdid' = <<>> /\ stderr' = <<>> /\ stdout' = <<>>
    /\ error' = ""
    /\ UNCHANGED sid

\* The ROFL client part at rest: no call made, nothing sent or received.
NoCall == [op |-> "", args |-> <<>>, state |-> "none"]
NoResponse == [status |-> 0, content |-> "", json |-> <<>>, text |-> <<>>]
NoOutcome == [type |-> "", value |-> <<>>]
NoClientCall ==
    /\ client = [klass |-> "", url |-> <<>>]
    /\ call = NoCall
    /\ transports = <<>>
    /\ requests = <<>>
    /\ response = NoResponse
    /\ outcome = NoOutcome

Init ==
    /\ sid \in 1..Len(Crates)
    /\ hashseed \in 1..NumHashSeeds
    /\ pc = "init"
    /\ root = 0
    /\ stack = <<>>
    /\ ret = NoReturn
    /\ returned = <<>>
    /\ used_types_by_rdid = <<>>
    /\ stderr = <<>>
    /\ stdout = <<>>
    /\ error = ""
    /\ run = 1
    /\ prev_stdout = <<>>
    /\ NoClientCall

Next ==
    \/ ModuleInit
    \/ VisitRoot
    \/ visit_struct
    \/ visit_enum
    \/ visit_typedef
    \/ visit_resolved_path
    \/ visit_rdtype
    \/ render_field
    \/ render_variant
    \/ Emit

Spec == Init /\ [][Next]_vars

\* The same input run by MaxRuns successive processes.
NextRepeat == Next \/ Rerun
SpecRepeat == Init /\ [][NextRepeat]_vars

-----------------------------------------------------------------------------
(* The ROFL appd clients: rofl-client/py/src/oasis_rofl_client *)

\* Text is a sequence of one-character strings; an endpoint path is held as
\* one token.
S_http == <<"h", "t", "t", "p">>
S_0x == <<"0", "x">>
Localhost == S_http \o <<":", "/", "/", "l", "o", "c", "a", "l", "h", "o", "s", "t">>

\* str.startswith(prefix)
StartsWithNever(s, prefix) == FALSE
StartsWith(s, prefix) ==
    /\ Len(s) >= Len(prefix)
    /\ SubSeq(s, 1, Len(prefix)) = prefix

\* common.py lines 21-27, and the class attribute of rofl_client.py line 41.
ROFL_SOCKET_PATH == <<"/run/rofl-appd.sock">>
RoflClient_ROFL_SOCKET_PATH == <<"/run/rofl-appd.sock">>
ENDPOINT_APP_ID == <<"/rofl/v1/app/id">>
ENDPOINT_KEYS_GENERATE == <<"/rofl/v1/keys/generate">>
ENDPOINT_TX_SIGN_SUBMIT == <<"/rofl/v1/tx/sign-submit">>
ENDPOINT_METADATA == <<"/rofl/v1/metadata">>
ENDPOINT_QUERY == <<"/rofl/v1/query">>

\* The timeout passed to client.get and client.post.
RequestTimeout == 60

\* class KeyKind(Enum): member name to value.
KeyKind ==
    [RAW_256 |-> "raw-256", RAW_384 |-> "raw-384",
     ED25519 |-> "ed25519", SECP256K1 |-> "secp256k1"]

\* The default of the parameter kind of generate_key; an argument left out
\* is written "omitted".
DefaultKindEd25519(arg) == IF arg = "omitted" THEN "ED25519" ELSE arg
KindArgument(arg) == IF arg = "omitted" THEN "SECP256K1" ELSE arg

\* The default of the parameter encrypt of sign_submit.
EncryptArgument(arg) == IF arg = "omitted" THEN TRUE ELSE arg = "True"

\* str(n) of an int.
Digits == <<"0", "1", "2", "3", "4", "5", "6", "7", "8", "9">>
RECURSIVE DecStr(_)
DecStr(n) ==
    IF n < 0 THEN <<"-">> \o DecStr(0 - n)
    ELSE IF n < 10 THEN <<Digits[n + 1]>>
    ELSE DecStr(n \div 10) \o <<Digits[(n % 10) + 1]>>

\* bytes.hex(): two lower-case digits per byte.  Bytes are held as a
\* sequence of numbers 0..255.
HexDigits == Digits \o <<"a", "b", "c", "d", "e", "f">>
UpperHexDigits == Digits \o <<"A", "B", "C", "D", "E", "F">>
RECURSIVE BytesHexUnpadded(_)
BytesHexUnpadded(bytes) ==
    IF bytes = <<>> THEN <<>>
    ELSE (IF Head(bytes) < 16 THEN <<HexDigits[Head(bytes) + 1]>>
          ELSE <<HexDigits[(Head(bytes) \div 16) + 1], HexDigits[(Head(bytes) % 16) + 1]>>)
         \o BytesHexUnpadded(Tail(bytes))
RECURSIVE BytesHex(_)
BytesHex(bytes) ==
    IF bytes = <<>> THEN <<>>
    ELSE <<HexDigits[(Head(bytes) \div 16) + 1], HexDigits[(Head(bytes) % 16) + 1]>>
         \o BytesHex(Tail(bytes))

\* bytes.fromhex(s): pairs of hex digits of either case; anything else is a
\* ValueError (no white space occurs in the strings considered).
IsHexDigit(c) ==
    \E i \in 1..16 : HexDigits[i] = c \/ UpperHexDigits[i] = c
HexValue(c) ==
    (CHOOSE i \in 1..16 : HexDigits[i] = c \/ UpperHexDigits[i] = c) - 1
FromHexValid(s) ==
    /\ Len(s) % 2 = 0
    /\ \A i \in 1..Len(s) : IsHexDigit(s[i])
FromHex(s) ==
    [i \in 1..(Len(s) \div 2) |-> 16 * HexValue(s[2 * i - 1]) + HexValue(s[2 * i])]

\* cbor2.loads(data), for the data items considered: an unsigned integer
\* below 24, null, the empty map and a map of one integer pair; any other
\* input raises.
CborUint(n) == [cbor |-> "uint", items |-> <<n>>]
CborNull == [cbor |-> "null", items |-> <<>>]
CborMap(pairs) == [cbor |-> "map", items |-> pairs]
CborLoadsValid(bytes) ==
    /\ bytes # <<>>
    /\ \/ bytes[1] < 24
       \/ bytes[1] \in {160, 246}
       \/ bytes[1] = 161 /\ Len(bytes) >= 3 /\ bytes[2] < 24 /\ bytes[3] < 24
CborLoads(bytes) ==
    IF bytes[1] < 24 THEN CborUint(bytes[1])
    ELSE IF bytes[1] = 246 THEN CborNull
    ELSE IF bytes[1] = 160 THEN CborMap(<<>>)
    ELSE CborMap(<<bytes[2], bytes[3]>>)

\* result = {} of sign_submit
EmptyDict == CborMap(<<>>)

\* What "tx.data without a leading 0x" keeps when nothing is cut.
StripNothing(s) == s
\* s[2:] if s.startswith("0x") else s
Strip0x(s) == IF StartsWith(s, S_0x) THEN SubSeq(s, 3, Len(s)) ELSE s

\* common.py lines 30-57 (the same statements are written out in
\* RoflClient.sign_submit, rofl_client.py lines 145-163).  A dict is held
\* as a function of its keys.
get_tx_payload(tx, encrypt) ==
    LET data == ("gas_limit" :> tx["gas"])
                @@ ("value" :> DecStr(tx["value"]))
                @@ ("data" :> Strip0x(tx["data"]))
    IN  [tx |-> [kind |-> "eth",
                 data |-> IF "to" \in DOMAIN tx
                          THEN data @@ ("to" :> Strip0x(tx["to"]))
                          ELSE data],
         encrypt |-> encrypt]

\* The clients and the arguments considered.
ClientClasses == {"RoflClient", "AsyncRoflClient"}
Urls ==
    { <<>>,
      <<"/", "s">>,
      <<"h", "t", "t">>,
      S_http \o <<":", "/", "/", "h">>,
      S_http \o <<"s", ":", "/", "/", "h">>,
      S_http \o <<"d", ".", "s">> }
KeyIds == { <<>>, <<"k", "1">> }
KindArguments == {"omitted", "RAW_256", "RAW_384", "ED25519", "SECP256K1"}
EncryptArguments == {"omitted", "True", "False"}
Address == <<"0", "x", "1", "2">>
\* a call, a contract creation with empty data, strings without the
\* prefix, a doubled prefix, and a transaction without gas
Txs ==
    << ("from" :> Address) @@ ("to" :> <<"0", "x", "9", "8">>)
       @@ ("data" :> <<"0", "x", "d", "a", "e", "1">>) @@ ("gas" :> 21000)
       @@ ("gasPrice" :> 5) @@ ("value" :> 1000) @@ ("nonce" :> 0),
       ("from" :> Address) @@ ("data" :> S_0x) @@ ("gas" :> 21000)
       @@ ("gasPrice" :> 0) @@ ("value" :> 0) @@ ("nonce" :> 0),
       ("to" :> <<"9", "8">>) @@ ("data" :> <<"d", "a">>) @@ ("gas" :> 1)
       @@ ("value" :> 7),
       ("to" :> S_0x \o S_0x) @@ ("data" :> S_0x \o S_0x \o <<"d", "a">>)
       @@ ("gas" :> 0) @@ ("value" :> 10) @@ ("nonce" :> 3),
       ("to" :> Address) @@ ("data" :> S_0x) @@ ("value" :> 0) >>
QueryMethod == <<"c", "o", "r", "e", ".", "X">>
QueryArguments == { <<>>, <<0>>, <<10, 255>>, <<161, 1, 2>> }
Metadata == ("k" :> <<"v">>)

\* The default socket path each class reads.
SocketPath ==
    IF client.klass = "RoflClient" THEN RoflClient_ROFL_SOCKET_PATH
    ELSE ROFL_SOCKET_PATH

Returned(value) == [type |-> "returned", value |-> value]
Raised(exception) == [type |-> "raised", value |-> exception]
None == <<"None">>
NoCallInProgress == call.state \in {"none", "done"}

\* _appd_request up to its await (lines 53-82 of async_rofl_client.py,
\* 62-91 of rofl_client.py), called by op(args): the transport is chosen,
\* the httpx.AsyncClient is opened on it and the request is sent.
appd_request(op, args, method, path, payload) ==
    IF method \notin {"GET", "POST"}
    THEN /\ call' = [op |-> op, args |-> args, state |-> "done"]
         /\ outcome' = Raised("ValueError")
         /\ transports' = <<>> /\ requests' = <<>> /\ response' = NoResponse
         /\ UNCHANGED <<client, convert_vars>>
    ELSE LET transport ==
                 IF client.url # <<>> /\ ~StartsWith(client.url, S_http)
                 THEN <<client.url>>
                 ELSE IF client.url = <<>> THEN <<SocketPath>>
                 ELSE <<>>
             base_url ==
                 IF client.url # <<>> /\ StartsWith(client.url, S_http)
                 THEN client.url
                 ELSE Localhost
             full_url == base_url \o path
         IN  /\ call' = [op |-> op, args |-> args, state |-> "awaiting"]
             /\ transports' = transport
             /\ requests' = <<[method |-> method, url |-> full_url,
                               json |-> payload, timeout |-> RequestTimeout,
                               transport |-> transport]>>
             /\ response' = NoResponse
             /\ outcome' = NoOutcome
             /\ UNCHANGED <<client, convert_vars>>

get_app_id ==
    /\ NoCallInProgress
    /\ appd_request("get_app_id", <<>>, "GET", ENDPOINT_APP_ID, None)

generate_key ==
    /\ NoCallInProgress
    /\ \E key_id \in KeyIds, kind \in KindArguments :
          appd_request("generate_key", [key_id |-> key_id, kind |-> kind],
                       "POST", ENDPOINT_KEYS_GENERATE,
                       [key_id |-> key_id, kind |-> KeyKind[KindArgument(kind)]])

sign_submit ==
    /\ NoCallInProgress
    /\ \E t \in 1..Len(Txs), encrypt \in EncryptArguments :
          LET tx == Txs[t]
              args == [tx |-> t, encrypt |-> encrypt]
          IN  IF {"gas", "value", "data"} \subseteq DOMAIN tx
              THEN appd_request("sign_submit", args, "POST", ENDPOINT_TX_SIGN_SUBMIT,
                                get_tx_payload(tx, EncryptArgument(encrypt)))
              ELSE /\ call' = [op |-> "sign_submit", args |-> args, state |-> "done"]
                   /\ outcome' = Raised("KeyError")
                   /\ transports' = <<>> /\ requests' = <<>>
                   /\ response' = NoResponse
                   /\ UNCHANGED <<client, convert_vars>>

get_metadata ==
    /\ NoCallInProgress
    /\ appd_request("get_metadata", <<>>, "GET", ENDPOINT_METADATA, None)

set_metadata ==
    /\ NoCallInProgress
    /\ appd_request("set_metadata", [metadata |-> Metadata], "POST",
                    ENDPOINT_METADATA, Metadata)

query ==
    /\ NoCallInProgress
    /\ \E args \in QueryArguments :
          appd_request("query", [method |-> QueryMethod, args |-> args],
                       "POST", ENDPOINT_QUERY,
                       [method |-> QueryMethod, args |-> BytesHex(args)])

\* The replies of the daemon considered: an error status, a success without
\* content, and, by endpoint, JSON objects or a text.
Reply(status, content, json, text) ==
    [status |-> status, content |-> content, json |-> json, text |-> text]
JsonReply(json) == Reply(200, "json", json, <<>>)
Replies(request) ==
    LET path == <<request.url[Len(request.url)]>>
    IN  <<Reply(500, "json", <<>>, <<>>), Reply(200, "empty", <<>>, <<>>)>> \o
        (IF path = ENDPOINT_APP_ID
         THEN <<Reply(200, "text", <<>>, <<"r", "o", "f", "l", "1", "q">>)>>
         ELSE IF path = ENDPOINT_KEYS_GENERATE
         THEN <<JsonReply("key" :> <<"0", "x", "a", "b">>), JsonReply("key" :> <<>>),
                JsonReply(<<>>)>>
         ELSE IF path = ENDPOINT_TX_SIGN_SUBMIT
         THEN <<JsonReply("data" :> <<"a", "0">>), JsonReply("data" :> <<"1", "7">>),
                JsonReply("data" :> <<"A", "1", "0", "1", "0", "2">>),
                JsonReply("data" :> <<"f", "6">>), JsonReply("data" :> <<"f", "f">>),
                JsonReply("data" :> <<"a", "0", "z">>),
                JsonReply("data" :> <<>>), JsonReply(<<>>)>>
         ELSE IF path = ENDPOINT_METADATA
         THEN <<JsonReply(Metadata), JsonReply(<<>>)>>
         ELSE <<JsonReply("data" :> request.json.args),
                JsonReply("data" :> <<"D", "E", "a", "d">>),
                JsonReply("data" :> <<"0">>), JsonReply(<<>>)>>)

\* The daemon answers the pending request.
Daemon ==
    /\ call.state = "awaiting"
    /\ \E i \in 1..Len(Replies(requests[1])) : response' = Replies(requests[1])[i]
    /\ call' = [call EXCEPT !.state = "responded"]
    /\ UNCHANGED <<client, transports, requests, outcome, convert_vars>>

\* What each method does with the response it awaited.
generate_key_result(json) ==
    IF "key" \in DOMAIN json THEN Returned(json["key"]) ELSE Raised("KeyError")
sign_submit_result(json) ==
    IF "data" \in DOMAIN json /\ json["data"] # <<>>
    THEN IF ~FromHexValid(json["data"]) THEN Raised("ValueError")
         ELSE IF ~CborLoadsValid(FromHex(json["data"])) THEN Raised("CBORDecodeError")
         ELSE Returned(CborLoads(FromHex(json["data"])))
    ELSE Returned(EmptyDict)
query_result(json) ==
    IF "data" \notin DOMAIN json THEN Raised("KeyError")
    ELSE IF ~FromHexValid(json["data"]) THEN Raised("ValueError")
    ELSE Returned(FromHex(json["data"]))

\* The call resumes: _appd_request checks the status and the content
\* (lines 84-89) and the method turns the response into its result.
Resume ==
    /\ call.state = "responded"
    /\ call' = [call EXCEPT !.state = "done"]
    /\ outcome' =
          IF response.status >= 400 THEN Raised("HTTPStatusError")
          ELSE IF call.op = "set_metadata" THEN Returned(None)
          ELSE IF response.content = "empty" THEN Raised("AttributeError")
          ELSE IF call.op = "get_app_id" THEN Returned(response.text)
          ELSE IF call.op = "generate_key" THEN generate_key_result(response.json)
          ELSE IF call.op = "sign_submit" THEN sign_submit_result(response.json)
          ELSE IF call.op = "get_metadata" THEN Returned(response.json)
          ELSE query_result(response.json)
    /\ UNCHANGED <<client, transports, requests, response, convert_vars>>

\* A client has been constructed: RoflClient(url) or AsyncRoflClient(url).
ClientInit ==
    /\ sid = 1 /\ hashseed = 1 /\ pc = "init" /\ root = 0 /\ stack = <<>>
    /\ ret = NoReturn /\ returned = <<>> /\ used_types_by_rdid = <<>>
    /\ stderr = <<>> /\ stdout = <<>> /\ error = "" /\ run = 1
    /\ prev_stdout = <<>>
    /\ \E klass \in ClientClasses, url \in Urls : client = [klass |-> klass, url |-> url]
    /\ call = NoCall
    /\ transports = <<>>
    /\ requests = <<>>
    /\ response = NoResponse
    /\ outcome = NoOutcome

ClientNext ==
    \/ get_app_id
    \/ generate_key
    \/ sign_submit
    \/ get_metadata
    \/ set_metadata
    \/ query
    \/ Daemon
    \/ Resume

ClientSpec == ClientInit /\ [][ClientNext]_vars

-----------------------------------------------------------------------------
(* Reading the input and the output, for the properties below *)

\* The number of declarations named name in the text out: a declaration
\* opens with "export interface " or "export type ", then the name, then
\* " {" or " =".
DeclAt(out, p, name) ==
    /\ out[p] \in {"export interface ", "export type "}
    /\ p + Len(name) + 1 <= Len(out)
    /\ SubSeq(out, p + 1, p + Len(name)) = name
    /\ out[p + Len(name) + 1] \in {" {", " ="}
DeclCount(out, name) ==
    Cardinality({p \in 1..Len(out) : DeclAt(out, p, name)})

\* The text part occurs in the text out.
Occurs(part, out) ==
    \E p \in 0..(Len(out) - Len(part)) : SubSeq(out, p + 1, p + Len(part)) = part

\* The identifiers the well-known lookups resolved to.
WellKnownRdids == {WellKnownRdid(k) : k \in 1..Len(WellKnown)}

\* The declarations a type expression leads to: through arrays and the
\* arguments of Vec and Option, to an indexed struct, enum or type alias.
RECURSIVE TypeRefs(_)
TypeRefs(type) ==
    IF type.kind = "array" THEN TypeRefs(type.inner.type)
    ELSE IF type.kind # "resolved_path" THEN {}
    ELSE IF type.inner.id \in {Vec_rdid, Option_rdid}
    THEN IF type.inner.args = <<>> THEN {} ELSE TypeRefs(type.inner.args[1])
    ELSE IF type.inner.id \in WellKnownRdids THEN {}
    ELSE IF type.inner.id \notin DOMAIN crate.index THEN {}
    ELSE IF crate.index[type.inner.id].kind \in {"struct", "enum", "typedef"}
    THEN {type.inner.id}
    ELSE {}

FieldRefs(fields) ==
    UNION {TypeRefs(crate.index[fields[i]].inner) : i \in 1..Len(fields)}

\* The declarations the body of declaration rdid refers to.
DeclRefs(rdid) ==
    LET item == crate.index[rdid]
    IN  IF item.kind = "struct"
        THEN IF \/ item.inner.struct_type = "plain"
                \/ item.inner.struct_type = "tuple" /\ ~item.inner.fields_stripped
             THEN FieldRefs(item.inner.fields)
             ELSE {}
        ELSE IF item.kind = "enum"
        THEN UNION {LET v == crate.index[item.inner.variants[i]]
                    IN  IF v.inner.variant_kind = "tuple"
                        THEN UNION {TypeRefs(v.inner.variant_inner[j]) :
                                        j \in 1..Len(v.inner.variant_inner)}
                        ELSE IF v.inner.variant_kind = "struct"
                        THEN FieldRefs(v.inner.variant_inner)
                        ELSE {} :
                    i \in 1..Len(item.inner.variants)}
        ELSE IF item.kind = "typedef" THEN TypeRefs(item.inner.type)
        ELSE {}

RECURSIVE Closure(_)
Closure(ids) ==
    LET more == ids \cup UNION {DeclRefs(rdid) : rdid \in ids}
    IN  IF more = ids THEN ids ELSE Closure(more)

RootRdids ==
    {rdids_by_path(this_crate_id, Roots[k].path, Roots[k].kind) : k \in 1..Len(Roots)}

\* The structs and enums reachable from the roots.
ReachableDecls ==
    {rdid \in Closure(RootRdids) : crate.index[rdid].kind \in {"struct", "enum"}}

\* The plain structs with a field whose type is a reference to the struct.
DirectCycleStructs ==
    {rdid \in DOMAIN crate.index :
        /\ crate.index[rdid].kind = "struct"
        /\ crate.index[rdid].inner.struct_type = "plain"
        /\ \E i \in 1..Len(crate.index[rdid].inner.fields) :
              LET type == crate.index[crate.index[rdid].inner.fields[i]].inner
              IN  type.kind = "resolved_path" /\ type.inner.id = rdid}

\* stderr shows that visit_struct(rdid) was called.
StructVisited(rdid) ==
    \E i \in 1..Len(stderr) : stderr[i] = <<"visiting struct">> \o SummaryRepr(rdid)

Ended == pc \in {"done", "crashed"}

-----------------------------------------------------------------------------
(* C1 *)

\* C1: when a plain struct S has a field whose type is a reference to S
\* itself, a run that visits S ends normally, the field is rendered with
\* S's declared name as its type, and the output holds exactly one
\* declaration named S.
C1_SelfReferenceCompletes ==
    \A rdid \in DirectCycleStructs :
        (Ended /\ StructVisited(rdid)) =>
            /\ pc = "done"
            /\ DeclCount(stdout, crate.index[rdid].name) = 1
            /\ Occurs(<<": ">> \o crate.index[rdid].name \o <<";", NL>>, stdout)

-----------------------------------------------------------------------------
(* C2 *)

\* C2: when the run completes, the output holds exactly one declaration
\* bearing the name of each struct or enum reachable from the roots, also
\* when several reachable declarations have the same name.
C2_OneDeclarationPerReachableName ==
    pc = "done" =>
        \A rdid \in ReachableDecls :
            DeclCount(stdout, crate.index[rdid].name) = 1

-----------------------------------------------------------------------------
(* C3 *)

\* A visit of a declaration is about to start.
VisitStarts(rdid) ==
    /\ pc = "roots" /\ stack # <<>>
    /\ Top.fn \in {"visit_struct", "visit_enum"}
    /\ Top.phase = "call"
    /\ Top.id = rdid

\* C3: once visit_struct(id) or visit_enum(id) has returned n, each later
\* visit of id returns n at once: no field or variant is rendered, no other
\* declaration is visited and the memo table is left as it is.
C3_RevisitReturnsMemoizedName ==
    [][\A h \in 1..Len(returned) :
          VisitStarts(returned[h].id) =>
              /\ pc' = pc
              /\ stack' = IF Len(stack) = 1 THEN <<>>
                          ELSE [SubSeq(stack, 1, Len(stack) - 1)
                                  EXCEPT ![Len(stack) - 1].acc = Append(@, returned[h].val)]
              /\ ret'.fn = Top.fn /\ ret'.id = Top.id
              /\ ret'.val = returned[h].val
              /\ used_types_by_rdid' = used_types_by_rdid]_vars

\* A declaration has been visited twice and has returned twice.
C3_Witness ==
    \E g, h \in 1..Len(returned) :
        g < h /\ returned[g].id = returned[h].id /\ returned[g].val = returned[h].val

-----------------------------------------------------------------------------
(* C4 *)

-----------------------------------------------------------------------------
(* C5 *)

Bijections(n) ==
    {f \in [1..n -> 1..n] : \A i, j \in 1..n : i # j => f[i] # f[j]}

\* C5: when a run completes, stdout is the text of every memo entry, each
\* once, in non-decreasing order of the emitted names, joined by line
\* breaks and ended by print's line break.
C5_OutputIsSortedMemo ==
    pc = "done" =>
        \E f \in Bijections(Len(used_types_by_rdid)) :
            /\ \A i, j \in 1..Len(used_types_by_rdid) :
                  i < j => ~StrLess(used_types_by_rdid[f[j]].ref,
                                    used_types_by_rdid[f[i]].ref)
            /\ stdout = Join(<<NL>>, [i \in 1..Len(used_types_by_rdid) |->
                                        used_types_by_rdid[f[i]].source])
                        \o <<NL>>

\* A run has completed whose declarations were not memoized in name order.
C5_Witness ==
    /\ pc = "done"
    /\ \E i, j \in 1..Len(used_types_by_rdid) :
          i < j /\ StrLess(used_types_by_rdid[j].ref, used_types_by_rdid[i].ref)

-----------------------------------------------------------------------------
(* C6 *)

\* The first visit of a struct whose struct_type is neither plain nor tuple
\* is about to start.
UnhandledStructVisit ==
    /\ pc = "roots" /\ stack # <<>>
    /\ Top.fn = "visit_struct" /\ Top.phase = "call"
    /\ Top.id \in DOMAIN crate.paths /\ Top.id \in DOMAIN crate.index
    /\ \A h \in 1..Len(returned) : returned[h].id # Top.id
    /\ crate.index[Top.id].inner.struct_type \notin {"plain", "tuple"}

IsPlaceholderFor(name, source) ==
    Occurs(<<"export type ">> \o name \o <<" =", " ", NotModeled>>, source)

\* C6: visiting a struct of an unhandled struct_type raises nothing: the
\* visit registers a NotModeled placeholder under the struct's name, writes
\* a diagnostic to stderr and returns the name to its caller; and a run that
\* completes has memoized and emitted every declaration reachable from the
\* roots.
C6_UnhandledStructKindIsContained ==
    /\ [](pc = "done" =>
            \A rdid \in ReachableDecls :
                /\ MemoHas(used_types_by_rdid, rdid)
                /\ Occurs(MemoGet(used_types_by_rdid, rdid).source, stdout))
    /\ [][UnhandledStructVisit =>
            /\ pc' = "roots" /\ error' = ""
            /\ Len(used_types_by_rdid') = Len(used_types_by_rdid) + 1
            /\ used_types_by_rdid'[Len(used_types_by_rdid')].rdid = Top.id
            /\ used_types_by_rdid'[Len(used_types_by_rdid')].ref
                  = crate.index[Top.id].name
            /\ IsPlaceholderFor(crate.index[Top.id].name,
                                used_types_by_rdid'[Len(used_types_by_rdid')].source)
            /\ Len(stderr') > Len(stderr)
            /\ stderr'[Len(stderr')] = <<"unhandled struct_type",
                                         crate.index[Top.id].inner.struct_type>>
            /\ ret'.fn = "visit_struct" /\ ret'.id = Top.id
            /\ ret'.val = crate.index[Top.id].name
            /\ Len(stack') = Len(stack) - 1]_vars

\* A run has completed in which a placeholder for an unhandled struct_type
\* was memoized before the declaration of a later sibling, and both were
\* emitted.
C6_Witness ==
    /\ pc = "done"
    /\ \E i, j \in 1..Len(used_types_by_rdid) :
          /\ i < j
          /\ crate.index[used_types_by_rdid[i].rdid].kind = "struct"
          /\ crate.index[used_types_by_rdid[i].rdid].inner.struct_type
                \notin {"plain", "tuple"}
          /\ IsPlaceholderFor(used_types_by_rdid[i].ref, stdout)
          /\ crate.index[used_types_by_rdid[j].rdid].kind = "enum"
          /\ Occurs(used_types_by_rdid[j].source, stdout)

-----------------------------------------------------------------------------
(* C7 *)

\* The running function fn returns in this step.
Returns(fn) ==
    /\ Running(fn)
    /\ pc' = pc
    /\ Len(stack') = Len(stack) - 1

\* The names captured from the attributes of item that match the rename
\* directive.
RenameCandidates(item) ==
    {item.attrs[i].word : i \in {k \in 1..Len(item.attrs) : RenameMatches(item.attrs[k])}}
ExpectedNames(item) ==
    IF RenameCandidates(item) = {} THEN {item.name} ELSE RenameCandidates(item)

\* The tokens of text between the first token lead and the next token close.
NameAfter(text, lead, close) ==
    LET p == CHOOSE p \in 1..Len(text) :
                 text[p] = lead /\ \A q \in 1..(p - 1) : text[q] # lead
        e == CHOOSE e \in (p + 1)..Len(text) :
                 text[e] = close /\ \A q \in (p + 1)..(e - 1) : text[q] # close
    IN  SubSeq(text, p + 1, e - 1)

EmittedFieldName(text) == NameAfter(text, "    ", ": ")
EmittedVariantName(text, variant_kind) ==
    IF variant_kind = "plain" THEN NameAfter(text, "    '", "'")
    ELSE NameAfter(text, "        ", ": ")

\* C7: a field or variant with an attribute matching the rename directive
\* is emitted under a name captured from such an attribute; one without is
\* emitted under its schema name.
C7_RenameOverridesSchemaName ==
    [][/\ Returns("render_field") =>
            EmittedFieldName(ret'.val) \in ExpectedNames(crate.index[Top.id])
       /\ (Returns("render_variant")
            /\ crate.index[Top.id].inner.variant_kind \in {"plain", "tuple", "struct"}) =>
            EmittedVariantName(ret'.val, crate.index[Top.id].inner.variant_kind)
                \in ExpectedNames(crate.index[Top.id])]_vars

\* A field with a matching attribute has been rendered under the captured
\* name, which differs from its schema name.
C7_Witness ==
    /\ ret.fn = "render_field"
    /\ RenameCandidates(crate.index[ret.id]) # {}
    /\ EmittedFieldName(ret.val) \in RenameCandidates(crate.index[ret.id])
    /\ EmittedFieldName(ret.val) # crate.index[ret.id].name

-----------------------------------------------------------------------------
(* C8 *)

\* What the rendering of a sequence or array of element type elem must be,
\* given the value the previous return left.
SequenceRendering(elem, result) ==
    IF elem.kind = "primitive" /\ elem.inner = "u8"
    THEN result = <<"Uint8Array">>
    ELSE /\ ret.fn = "visit_rdtype"
         /\ result = ret.val \o <<"[]">>

\* C8: Vec<u8> and a fixed-size array of u8 render as Uint8Array, never as
\* an element array; every other Vec or array renders as the rendering of
\* its element type followed by '[]'.
C8_ByteSequencesAreBlobs ==
    [][/\ (Returns("visit_rdtype") /\ Top.ty.kind = "array") =>
            SequenceRendering(Top.ty.inner.type, ret'.val)
       /\ (Returns("visit_resolved_path") /\ Top.ty.id = Vec_rdid) =>
            SequenceRendering(Top.ty.args[1], ret'.val)]_vars

\* An array of arrays of u8 has been rendered as 'Uint8Array[]'.
C8_Witness ==
    /\ ret.fn = "visit_rdtype"
    /\ ret.ty.kind = "array"
    /\ ret.val = <<"Uint8Array", "[]">>

-----------------------------------------------------------------------------
(* C9 *)

\* C9: a run that aborts has written nothing to stdout, and a run aborts
\* only where the lookup of a root fails: when every root lookup succeeds,
\* the run reaches line 179.
C9_AbortsOnlyOnRootLookup ==
    pc = "crashed" =>
        /\ stdout = <<>>
        /\ (\A k \in 1..Len(WellKnown) : WellKnownFound(k)) =>
              /\ stack = <<>>
              /\ root < Len(Roots)
              /\ ~HasPath(this_crate_id, Roots[root + 1].path, Roots[root + 1].kind)

-----------------------------------------------------------------------------
(* C10 *)

\* Where the declaration whose opening token is at p starts: at its
\* documentation block when it has one.
DeclStart(out, p) ==
    IF p > 2 /\ out[p - 2] = " */"
    THEN CHOOSE s \in 1..p : out[s] = "/**" /\ \A q \in (s + 1)..p : out[q] # "/**"
    ELSE p

\* C10: in the output, every declaration but the first is preceded by a
\* blank line.
C10_BlankLineBetweenDeclarations ==
    pc = "done" =>
        \A p \in 1..Len(stdout) :
            stdout[p] \in {"export interface ", "export type "} =>
                LET s == DeclStart(stdout, p)
                IN  \/ s = 1
                    \/ s > 2 /\ stdout[s - 1] = NL /\ stdout[s - 2] = NL

-----------------------------------------------------------------------------
(* C11 *)

EndsWith(text, tail) ==
    /\ Len(text) >= Len(tail)
    /\ SubSeq(text, Len(text) - Len(tail) + 1, Len(text)) = tail

\* The object member { name: value }.
ObjectMember(text, name, value) ==
    /\ text[1] = "    {"
    /\ EndsWith(text, <<"        ">> \o name \o <<": ">> \o value \o <<";", NL, "    }">>)

\* text is the union member of the variant item under the wire name name,
\* given the renderings inner of its inner types or fields.
UnionMember(item, name, inner, text) ==
    LET kind == item.inner.variant_kind
        n == Len(item.inner.variant_inner)
    IN  IF kind = "plain"
        THEN EndsWith(text, <<"    '">> \o name \o <<"'">>)
        ELSE IF kind = "tuple" /\ n = 1
        THEN Len(inner) = 1 /\ ObjectMember(text, name, inner[1])
        ELSE IF kind = "tuple"
        THEN /\ Len(inner) = n
             /\ ObjectMember(text, name, <<"[">> \o Join(<<", ">>, inner) \o <<"]">>)
        ELSE IF kind = "struct"
        THEN /\ Len(inner) = n
             /\ ObjectMember(text, name, <<"{", NL>> \o Concat(inner) \o <<"}">>)
        ELSE /\ \E p \in 1..Len(text) : text[p] = NotModeled
             /\ \A p \in 1..Len(text) : text[p] \notin {"    {", "    '"}

\* The number of tokens of text equal to token.
CountToken(text, token) == Cardinality({p \in 1..Len(text) : text[p] = token})

\* The declaration of the Event of CrateUnitAmount.
UnitAmountDeclaration ==
    <<"export type ">> \o N_Event \o <<" =", NL,
      "    '", "U", "n", "i", "t", "'", " |", NL,
      "    {", NL,
      "        ", "A", "m", "o", "u", "n", "t", ": ",
      "oasis.types.longnum /* ", "u64", " */", ";", NL,
      "    }", ";", NL>>

\* C11: every variant is rendered as the union member of its kind (string
\* literal, single-key object of one type, of a positional tuple, of a
\* field block, or the unmodeled placeholder); a first visit of an enum
\* registers one member per variant, joined by ' |'; and the enum with the
\* variants Unit and Amount(u64) is printed as 'Unit' | { Amount: longnum }.
C11_OneUnionMemberPerVariant ==
    /\ [][/\ Returns("render_variant") =>
                \E name \in ExpectedNames(crate.index[Top.id]) :
                    UnionMember(crate.index[Top.id], name, Top.acc, ret'.val)
           /\ (Returns("visit_enum") /\ used_types_by_rdid' # used_types_by_rdid) =>
                LET variants == crate.index[Top.id].inner.variants
                    source == used_types_by_rdid'[Len(used_types_by_rdid')].source
                IN  /\ Len(Top.acc) = Len(variants)
                    /\ CountToken(source, " |") = Len(variants) - 1
                    /\ EndsWith(source, Join(<<" |", NL>>, Top.acc) \o <<";", NL>>)]_vars
    /\ [](pc = "done" /\ sid = 9 => Occurs(UnitAmountDeclaration, stdout))

\* The enum Unit | Amount(u64) of CrateUnitAmount has been visited, its
\* second member being the object of the large-integer alias, and printed.
C11_Witness ==
    /\ sid = 9
    /\ pc = "done"
    /\ used_types_by_rdid[1].rdid = "#Event"
    /\ CountToken(used_types_by_rdid[1].source, " |") = 1
    /\ Occurs(UnitAmountDeclaration, stdout)


-----------------------------------------------------------------------------
(* C12 *)

\* The client's url starts with the four characters 'http'.
UrlIsHttp ==
    /\ Len(client.url) >= 4
    /\ client.url[1] = "h" /\ client.url[2] = "t"
    /\ client.url[3] = "t" /\ client.url[4] = "p"

\* The endpoint each method addresses.
PathOf(op) ==
    IF op = "get_app_id" THEN "/rofl/v1/app/id"
    ELSE IF op = "generate_key" THEN "/rofl/v1/keys/generate"
    ELSE IF op = "sign_submit" THEN "/rofl/v1/tx/sign-submit"
    ELSE IF op = "query" THEN "/rofl/v1/query"
    ELSE "/rofl/v1/metadata"

\* <base> + path for the call in progress.
TargetOf(op) ==
    (IF UrlIsHttp THEN client.url ELSE Localhost) \o <<PathOf(op)>>

\* The call has sent its request.
Sent == call.state \in {"awaiting", "responded", "done"} /\ requests # <<>>

\* The call has returned on a JSON response of the daemon.
AnsweredWithJson ==
    /\ Sent
    /\ call.state = "done"
    /\ response.status = 200
    /\ response.content = "json"

\* C12: every request of either client class goes, for an empty url, over
\* one socket transport bound to /run/rofl-appd.sock to http://localhost +
\* path; for a url not starting with 'http', over one socket transport bound
\* to the url to http://localhost + path; for a url starting with 'http',
\* over no socket transport to url + path.
C12_TransportAndTargetByUrl ==
    Sent =>
        /\ Len(requests) = 1
        /\ requests[1].transport = transports
        /\ IF client.url = <<>>
           THEN /\ transports = << <<"/run/rofl-appd.sock">> >>
                /\ requests[1].url = Localhost \o <<PathOf(call.op)>>
           ELSE IF ~UrlIsHttp
           THEN /\ transports = <<client.url>>
                /\ requests[1].url = Localhost \o <<PathOf(call.op)>>
           ELSE /\ transports = <<>>
                /\ requests[1].url = client.url \o <<PathOf(call.op)>>

\* A call of a client on an http url has returned after one request to
\* url + path, no socket transport having been created.
C12_Witness ==
    /\ UrlIsHttp
    /\ call.state = "done"
    /\ outcome.type = "returned"
    /\ Len(requests) = 1
    /\ requests[1].url = client.url \o <<PathOf(call.op)>>
    /\ transports = <<>>

-----------------------------------------------------------------------------
(* C13 *)

\* The wire value of each key kind, SECP256K1 when the argument is left out.
KindOnWire(arg) ==
    IF arg = "RAW_256" THEN "raw-256"
    ELSE IF arg = "RAW_384" THEN "raw-384"
    ELSE IF arg = "ED25519" THEN "ed25519"
    ELSE "secp256k1"

\* C13: generate_key(key_id, kind) sends exactly one request, a POST to
\* <base>/rofl/v1/keys/generate with the JSON body {key_id, kind: value of
\* kind} and timeout 60, kind being SECP256K1 when omitted; on a JSON
\* response with a 'key' field it returns that field unchanged.
C13_GenerateKeyRequestAndResult ==
    (Sent /\ call.op = "generate_key") =>
        /\ Len(requests) = 1
        /\ requests[1].method = "POST"
        /\ requests[1].url = TargetOf("generate_key")
        /\ requests[1].json = [key_id |-> call.args.key_id,
                               kind |-> KindOnWire(call.args.kind)]
        /\ requests[1].timeout = 60
        /\ (AnsweredWithJson /\ "key" \in DOMAIN response.json) =>
              outcome = [type |-> "returned", value |-> response.json["key"]]

\* generate_key without a kind has sent kind 'secp256k1' and returned the
\* key of the response.
C13_Witness ==
    /\ call.op = "generate_key"
    /\ call.args.kind = "omitted"
    /\ AnsweredWithJson
    /\ requests[1].json.kind = "secp256k1"
    /\ "key" \in DOMAIN response.json
    /\ outcome.type = "returned"
    /\ outcome.value = <<"0", "x", "a", "b">>

-----------------------------------------------------------------------------
(* C14 *)

\* The number a decimal string without sign denotes.
RECURSIVE DecValue(_)
DecValue(str) ==
    IF str = <<>> THEN 0
    ELSE 10 * DecValue(SubSeq(str, 1, Len(str) - 1))
         + (CHOOSE d \in 0..9 : Digits[d + 1] = str[Len(str)])

\* str is the decimal string of the natural number n.
IsDecimalOf(str, n) ==
    /\ str # <<>>
    /\ \A i \in 1..Len(str) : \E d \in 1..10 : Digits[d] = str[i]
    /\ Len(str) > 1 => str[1] # "0"
    /\ DecValue(str) = n

\* short is long without a leading '0x'.
WithoutLeading0x(short, long) ==
    IF Len(long) >= 2 /\ long[1] = "0" /\ long[2] = "x"
    THEN long = <<"0", "x">> \o short
    ELSE long = short

\* The call has returned on a JSON response whose 'data' is non-empty.
AnsweredWithData ==
    /\ AnsweredWithJson
    /\ "data" \in DOMAIN response.json
    /\ response.json["data"] # <<>>

\* C14: sign_submit(tx, encrypt) posts to /rofl/v1/tx/sign-submit the
\* payload {tx: {kind: 'eth', data: {gas_limit, value, data[, to]}},
\* encrypt} with gas_limit = tx.gas, value = str(tx.value), data and to
\* without a leading '0x', to present exactly when tx has it, encrypt true
\* when omitted, and no other key of tx; on a JSON response it returns the
\* CBOR-decoded 'data' when that is present and non-empty (and decodable),
\* else an empty dict.
C14_SignSubmitPayloadAndResult ==
    (Sent /\ call.op = "sign_submit") =>
        LET tx == Txs[call.args.tx]
            payload == requests[1].json
            data == payload.tx.data
        IN  /\ Len(requests) = 1
            /\ requests[1].method = "POST"
            /\ requests[1].url = TargetOf("sign_submit")
            /\ DOMAIN payload = {"tx", "encrypt"}
            /\ DOMAIN payload.tx = {"kind", "data"}
            /\ payload.tx.kind = "eth"
            /\ payload.encrypt = (call.args.encrypt \in {"omitted", "True"})
            /\ DOMAIN data = {"gas_limit", "value", "data"}
                             \cup (DOMAIN tx \cap {"to"})
            /\ data["gas_limit"] = tx["gas"]
            /\ IsDecimalOf(data["value"], tx["value"])
            /\ WithoutLeading0x(data["data"], tx["data"])
            /\ "to" \in DOMAIN tx => WithoutLeading0x(data["to"], tx["to"])
            /\ (AnsweredWithData /\ FromHexValid(response.json["data"])
                /\ CborLoadsValid(FromHex(response.json["data"]))) =>
                  outcome = [type |-> "returned",
                             value |-> CborLoads(FromHex(response.json["data"]))]
            /\ (AnsweredWithJson /\ ~AnsweredWithData) =>
                  outcome = [type |-> "returned", value |-> EmptyDict]

\* sign_submit without encrypt of a transaction with '0x'-prefixed to and
\* data has sent both without the prefix, encrypt true, and returned the
\* decoded map of the response.
C14_Witness ==
    /\ call.op = "sign_submit"
    /\ call.args.tx = 1
    /\ call.args.encrypt = "omitted"
    /\ AnsweredWithData
    /\ requests[1].json.encrypt
    /\ requests[1].json.tx.data["to"] = <<"9", "8">>
    /\ requests[1].json.tx.data["data"] = <<"d", "a", "e", "1">>
    /\ requests[1].json.tx.data["value"] = <<"1", "0", "0", "0">>
    /\ outcome.type = "returned"
    /\ outcome.value = [cbor |-> "map", items |-> <<1, 2>>]

-----------------------------------------------------------------------------
(* C15 *)

\* text is the lower-case hexadecimal writing of bytes, two digits a byte.
IsHexOf(text, bytes) ==
    /\ Len(text) = 2 * Len(bytes)
    /\ \A i \in 1..Len(bytes) :
          /\ \E h \in 1..16 : HexDigits[h] = text[2 * i - 1]
          /\ \E l \in 1..16 : HexDigits[l] = text[2 * i]
          /\ bytes[i] = 16 * ((CHOOSE h \in 1..16 : HexDigits[h] = text[2 * i - 1]) - 1)
                        + (CHOOSE l \in 1..16 : HexDigits[l] = text[2 * i]) - 1

\* C15: query(method, args) sends exactly one request, a POST to
\* <base>/rofl/v1/query with the JSON body {method, args: hex(args)}; on a
\* JSON response whose 'data' is a hexadecimal string it returns the bytes
\* that string denotes, so that a daemon echoing 'args' as 'data' makes it
\* return args.
C15_QueryRoundTrip ==
    (Sent /\ call.op = "query") =>
        /\ Len(requests) = 1
        /\ requests[1].method = "POST"
        /\ requests[1].url = TargetOf("query")
        /\ DOMAIN requests[1].json = {"method", "args"}
        /\ requests[1].json.method = call.args.method
        /\ IsHexOf(requests[1].json.args, call.args.args)
        /\ requests[1].timeout = 60
        /\ (AnsweredWithJson /\ "data" \in DOMAIN response.json) =>
              /\ FromHexValid(response.json["data"]) =>
                    /\ outcome.type = "returned"
                    /\ Len(outcome.value) * 2 = Len(response.json["data"])
                    /\ \A i \in 1..Len(outcome.value) :
                          outcome.value[i] =
                              16 * HexValue(response.json["data"][2 * i - 1])
                              + HexValue(response.json["data"][2 * i])
              /\ response.json["data"] = requests[1].json.args =>
                    outcome = [type |-> "returned", value |-> call.args.args]

\* query of the two bytes 0a ff has been echoed by the daemon and has
\* returned them.
C15_Witness ==
    /\ call.op = "query"
    /\ call.args.args = <<10, 255>>
    /\ AnsweredWithJson
    /\ "data" \in DOMAIN response.json
    /\ response.json["data"] = <<"0", "a", "f", "f">>
    /\ outcome = [type |-> "returned", value |-> <<10, 255>>]


-----------------------------------------------------------------------------
(* C16 *)

\* The name captured from the first attribute of item, in attribute order,
\* that matches the rename directive; the schema name when none matches.
FirstRenameName(item) ==
    LET matching == {k \in 1..Len(item.attrs) : RenameMatches(item.attrs[k])}
    IN  IF matching = {} THEN item.name
        ELSE item.attrs[CHOOSE k \in matching : \A j \in matching : k <= j].word

\* C16: a field or variant with several attributes matching the rename
\* directive is emitted under the name captured from the first of them.
C16_FirstRenameWins ==
    [][/\ Returns("render_field") =>
            EmittedFieldName(ret'.val) = FirstRenameName(crate.index[Top.id])
       /\ (Returns("render_variant")
            /\ crate.index[Top.id].inner.variant_kind \in {"plain", "tuple", "struct"}) =>
            EmittedVariantName(ret'.val, crate.index[Top.id].inner.variant_kind)
                = FirstRenameName(crate.index[Top.id])]_vars

-----------------------------------------------------------------------------
(* C17 *)

\* C17: a struct or enum visit that has started rendering its fields or
\* variants has its memo entry registered already.
C17_MemoRegisteredBeforeBody ==
    \A i \in 1..Len(stack) :
        (stack[i].fn \in {"visit_struct", "visit_enum"} /\ stack[i].phase = "body") =>
            \E j \in 1..Len(used_types_by_rdid) : used_types_by_rdid[j].rdid = stack[i].id

-----------------------------------------------------------------------------
(* C18 *)

\* C18: visit_rdtype never raises: no run ends in an exception that passes
\* through a call of visit_rdtype (the exhausted recursion of C1 apart).
C18_VisitRdtypeNeverRaises ==
    (pc = "crashed" /\ error # "RecursionError") =>
        \A i \in 1..Len(stack) : stack[i].fn # "visit_rdtype"

-----------------------------------------------------------------------------
(* C19 *)

\* The number of diagnostic lines on stderr, the visitation trace apart.
DiagnosticCount(lines) ==
    Cardinality({i \in 1..Len(lines) :
        lines[i][1] \in {"unhandled tag", "unhandled primitive", "unhandled item kind",
                         "unindexed resolved path id", "unhandled struct_type",
                         "unhandled variant kind"}})

HasNotModeled(text) == \E p \in 1..Len(text) : text[p] = NotModeled

\* The returning call renders a type expression, reference or variant that
\* has no mapping.
DegradedReturn ==
    \/ /\ Returns("visit_rdtype")
       /\ \/ Top.ty.kind \notin {"resolved_path", "primitive", "array"}
          \/ /\ Top.ty.kind = "primitive"
             /\ Top.ty.inner \notin {"u8", "u16", "u32", "i8", "i16", "i32",
                                     "u64", "i64", "u128", "i128"}
    \/ /\ Returns("visit_resolved_path")
       /\ Top.ty.id \notin WellKnownRdids
       /\ \/ Top.ty.id \notin DOMAIN crate.index
          \/ crate.index[Top.ty.id].kind \notin {"struct", "enum", "typedef"}
    \/ /\ Returns("render_variant")
       /\ crate.index[Top.id].inner.variant_kind \notin {"plain", "tuple", "struct"}

\* The returning call is the first visit of a struct of an unsupported kind.
DegradedStruct ==
    /\ Returns("visit_struct")
    /\ used_types_by_rdid' # used_types_by_rdid
    /\ crate.index[Top.id].inner.struct_type \notin {"plain", "tuple"}

\* C19: every degraded rendering (unrecognized type-expression kind,
\* unhandled primitive, reference to a declaration of an unhandled kind or
\* to an identifier outside the index, unsupported struct or variant kind)
\* puts oasis.types.NotModeled where the type belongs and writes exactly one
\* diagnostic line.
C19_DegradedIsNotModeled ==
    [][/\ DegradedReturn =>
            /\ HasNotModeled(ret'.val)
            /\ DiagnosticCount(stderr') = DiagnosticCount(stderr) + 1
       /\ DegradedStruct =>
            /\ HasNotModeled(used_types_by_rdid'[Len(used_types_by_rdid')].source)
            /\ DiagnosticCount(stderr') = DiagnosticCount(stderr) + 1]_vars

-----------------------------------------------------------------------------
(* C20 *)

\* The step is a struct or enum visit reaching line 60 or 116: it returns
\* without having found its identifier in the table on entry.
MemoWrite ==
    /\ Returns("visit_struct") \/ Returns("visit_enum")
    /\ \/ Top.phase = "body"
       \/ \A i \in 1..Len(used_types_by_rdid) : used_types_by_rdid[i].rdid # Top.id

\* C20: the memo table is empty when the traversal starts; every step
\* keeps every entry as it is; a write adds an entry for an identifier
\* that had none, and no other step changes the table; stdout is written
\* only when the last root visit has returned.
C20_MemoOnlyGrows ==
    /\ []((pc = "init" \/ (pc = "roots" /\ root = 0 /\ stack = <<>>)) =>
            used_types_by_rdid = <<>>)
    /\ [][/\ Len(used_types_by_rdid') >= Len(used_types_by_rdid)
          /\ \A i \in 1..Len(used_types_by_rdid) :
                used_types_by_rdid'[i] = used_types_by_rdid[i]
          /\ MemoWrite =>
                /\ \A i \in 1..Len(used_types_by_rdid) :
                      used_types_by_rdid[i].rdid # Top.id
                /\ Len(used_types_by_rdid') = Len(used_types_by_rdid) + 1
                /\ used_types_by_rdid'[Len(used_types_by_rdid')].rdid = Top.id
          /\ ~MemoWrite => used_types_by_rdid' = used_types_by_rdid
          /\ stdout' # stdout =>
                /\ stack = <<>>
                /\ root = Len(Roots)
                /\ used_types_by_rdid' = used_types_by_rdid]_vars

\* A run has registered four declarations one after the other and printed
\* them after its last root visit.
C20_Witness ==
    /\ pc = "done"
    /\ root = Len(Roots)
    /\ Len(used_types_by_rdid) = 4
    /\ Cardinality({used_types_by_rdid[i].rdid : i \in 1..4}) = 4
    /\ stdout # <<>>


-----------------------------------------------------------------------------
(* C21 *)

\* What a returning visit_resolved_path must return for the reference rp,
\* decided in the order of lines 129-151, given the value the previous
\* return left.
ResolvedPathRendering(rp, value) ==
    IF rp.id = String_rdid THEN value = <<"string">>
    ELSE IF rp.id = Vec_rdid THEN SequenceRendering(rp.args[1], value)
    ELSE IF rp.id = Option_rdid
    THEN /\ ret.fn = "visit_rdtype"
         /\ value = <<"(">> \o ret.val \o <<" | null)">>
    ELSE IF rp.id = cbor_Value_rdid THEN value = <<"unknown">>
    ELSE IF rp.id \notin DOMAIN crate.index
    THEN /\ HasNotModeled(value)
         /\ DiagnosticCount(stderr') = DiagnosticCount(stderr) + 1
    ELSE IF crate.index[rp.id].kind \in {"struct", "enum", "typedef"}
    THEN /\ ret.fn = IF crate.index[rp.id].kind = "struct" THEN "visit_struct"
                     ELSE IF crate.index[rp.id].kind = "enum" THEN "visit_enum"
                     ELSE "visit_typedef"
         /\ ret.id = rp.id
         /\ value = ret.val
    ELSE ~HasNotModeled(value)

\* A reference whose identifier is neither well-known nor indexed.
UnindexedReference(rp) ==
    /\ rp.id \notin WellKnownRdids
    /\ rp.id \notin DOMAIN crate.index

\* C21: a returning visit_resolved_path has decided in the order string,
\* Vec<u8>, Vec, Option, Value, unindexed, indexed kind; no well-known
\* identifier, none of which is indexed, gets a memo entry; and no step of
\* the visit of an unindexed identifier raises.
C21_ResolvedPathPriority ==
    /\ [][Returns("visit_resolved_path") =>
            ResolvedPathRendering(Top.ty, ret'.val)]_vars
    /\ []((\A k \in 1..Len(WellKnown) : WellKnownFound(k)) =>
            /\ WellKnownRdids \cap DOMAIN crate.index = {}
            /\ \A i \in 1..Len(used_types_by_rdid) :
                  used_types_by_rdid[i].rdid \notin WellKnownRdids)
    /\ [][(Running("visit_resolved_path") /\ UnindexedReference(Top.ty)) =>
            pc' # "crashed"]_vars

-----------------------------------------------------------------------------
(* C22 *)

NativeIntegers == {"u8", "u16", "u32", "i8", "i16", "i32"}
LongIntegers == {"u64", "i64"}
WideIntegers == {"u128", "i128"}

\* C22: visit_rdtype renders u8, u16, u32, i8, i16 and i32 as number
\* annotated with the primitive's name, u64 and i64 as oasis.types.longnum
\* (never as number), and u128 and i128 as Uint8Array.
C22_IntegerPrimitives ==
    [][(Returns("visit_rdtype") /\ Top.ty.kind = "primitive") =>
        LET p == Top.ty.inner
            value == ret'.val
        IN  /\ p \in NativeIntegers => value = <<"number /* ", p, " */">>
            /\ p \in LongIntegers =>
                  /\ value = <<"oasis.types.longnum /* ", p, " */">>
                  /\ \A i \in 1..Len(value) : value[i] # "number /* "
            /\ p \in WideIntegers => value = <<"Uint8Array /* ", p, " */">>]_vars

\* A run that rendered every integer primitive has ended.
C22_Witness ==
    /\ pc = "done"
    /\ \A p \in NativeIntegers \cup LongIntegers \cup WideIntegers :
          \E i \in 1..Len(used_types_by_rdid) :
              Occurs(<<p, " */">>, used_types_by_rdid[i].source)

-----------------------------------------------------------------------------
(* C23 *)

\* The position of the i-th token of text equal to token.
NthToken(text, token, i) ==
    CHOOSE p \in 1..Len(text) :
        /\ text[p] = token
        /\ Cardinality({q \in 1..p : text[q] = token}) = i

\* The i-th of the n members of a union: the text between the separators
\* ' |' around it.
MemberText(source, i, n) ==
    SubSeq(source,
           IF i = 1 THEN 1 ELSE NthToken(source, " |", i - 1) + 1,
           IF i = n THEN Len(source) ELSE NthToken(source, " |", i) - 1)

\* The text of the i-th field line of an interface, from its indentation.
FieldText(source, i) ==
    SubSeq(source, NthToken(source, "    ", i), Len(source))

\* text begins with a field line under one of the names.
FieldNamed(text, names) ==
    \E name \in names :
        /\ Len(text) >= Len(name) + 2
        /\ SubSeq(text, 1, Len(name) + 2) = <<"    ">> \o name \o <<": ">>

\* text holds a union member of the kind under one of the names.
MemberNamed(text, kind, names) ==
    \E name \in names :
        IF kind = "plain" THEN Occurs(<<"    '">> \o name \o <<"'">>, text)
        ELSE Occurs(<<"        ">> \o name \o <<": ">>, text)

\* The names of the declarations of out, in the order of out.
DeclNameAt(out, p) ==
    LET e == CHOOSE e \in (p + 1)..Len(out) :
                 out[e] \in {" {", " ="} /\ \A q \in (p + 1)..(e - 1) : out[q] \notin {" {", " ="}
    IN  SubSeq(out, p + 1, e - 1)
DeclPositions(out) ==
    {p \in 1..Len(out) : out[p] \in {"export interface ", "export type "}}

\* C23: a registered enum has one union member per variant, the i-th being
\* that of the i-th variant of the schema; a registered plain struct has one
\* field line per field, the i-th being that of the i-th field of the
\* schema; and the declarations are printed in the order of their names.
C23_SchemaOrderWithinSortedDeclarations ==
    /\ [][/\ (Returns("visit_enum") /\ used_types_by_rdid' # used_types_by_rdid) =>
                LET variants == crate.index[Top.id].inner.variants
                    n == Len(variants)
                    source == used_types_by_rdid'[Len(used_types_by_rdid')].source
                IN  /\ CountToken(source, " |") = n - 1
                    /\ \A i \in 1..n :
                          LET item == crate.index[variants[i]]
                              kind == item.inner.variant_kind
                              text == MemberText(source, i, n)
                          IN  IF kind \in {"plain", "tuple", "struct"}
                              THEN MemberNamed(text, kind, ExpectedNames(item))
                              ELSE HasNotModeled(text)
          /\ (/\ Returns("visit_struct")
              /\ used_types_by_rdid' # used_types_by_rdid
              /\ crate.index[Top.id].inner.struct_type = "plain") =>
                LET fields == crate.index[Top.id].inner.fields
                    source == used_types_by_rdid'[Len(used_types_by_rdid')].source
                IN  /\ CountToken(source, "    ") = Len(fields)
                    /\ \A i \in 1..Len(fields) :
                          FieldNamed(FieldText(source, i),
                                     ExpectedNames(crate.index[fields[i]]))]_vars
    /\ [](pc = "done" =>
            \A p, q \in DeclPositions(stdout) :
                p < q => ~StrLess(DeclNameAt(stdout, q), DeclNameAt(stdout, p)))

\* The run on CrateRepeated has printed the Event with the members B, A, A
\* and the Transaction with the fields b, a, a, Event first.
C23_Witness ==
    /\ pc = "done"
    /\ sid = 12
    /\ Occurs(<<"    '", "B", "'", " |", NL, "    '", "A", "'", " |", NL,
                "    '", "A", "'", ";", NL>>, stdout)
    /\ Occurs(<<"    ", "b", ": ", "number /* ", "u8", " */", ";", NL,
                "    ", "a", ": ", "number /* ", "u16", " */", ";", NL,
                "    ", "a", ": ", "number /* ", "u32", " */", ";", NL>>, stdout)
    /\ NthToken(stdout, "export type ", 1) < NthToken(stdout, "export interface ", 1)

-----------------------------------------------------------------------------
(* C24 *)

\* The type expressions a and b are the same expression.
RECURSIVE SameType(_, _)
SameType(a, b) ==
    /\ a.kind = b.kind
    /\ IF a.kind = "primitive" THEN a.inner = b.inner
       ELSE IF a.kind = "array" THEN SameType(a.inner.type, b.inner.type)
       ELSE IF a.kind = "resolved_path" THEN a.inner.id = b.inner.id
       ELSE TRUE

\* The running function is visit_struct on a tuple struct.
VisitsTupleStruct ==
    /\ Running("visit_struct")
    /\ Top.id \in DOMAIN crate.index
    /\ crate.index[Top.id].inner.struct_type = "tuple"

\* The declarations that only the listed fields of a stripped tuple struct
\* lead to.
BehindStrippedOnly ==
    LET stripped == {rdid \in ReachableDecls :
                        /\ crate.index[rdid].kind = "struct"
                        /\ crate.index[rdid].inner.struct_type = "tuple"
                        /\ crate.index[rdid].inner.fields_stripped}
    IN  Closure(UNION {FieldRefs(crate.index[rdid].inner.fields) : rdid \in stripped})
        \ Closure(RootRdids)

\* C24: a first visit of a tuple struct with stripped fields registers the
\* NotModeled placeholder without having visited any field type, and no
\* declaration that only those fields lead to is visited or memoized; a
\* first visit of any other tuple struct calls visit_rdtype on the type of
\* each field in turn and registers '[' + the renderings joined by ', ' +
\* ']', one per field.
C24_TupleStruct ==
    /\ [][/\ (VisitsTupleStruct /\ Len(stack') = Len(stack) + 1) =>
                LET item == crate.index[Top.id]
                    callee == stack'[Len(stack')]
                IN  /\ ~item.inner.fields_stripped
                    /\ callee.fn = "visit_rdtype"
                    /\ Len(Top.acc) < Len(item.inner.fields)
                    /\ SameType(callee.ty,
                                crate.index[item.inner.fields[Len(Top.acc) + 1]].inner)
          /\ (VisitsTupleStruct /\ Returns("visit_struct")
                /\ used_types_by_rdid' # used_types_by_rdid) =>
                LET item == crate.index[Top.id]
                    source == used_types_by_rdid'[Len(used_types_by_rdid')].source
                IN  IF item.inner.fields_stripped
                    THEN /\ IsPlaceholderFor(item.name, source)
                         /\ Top.acc = <<>>
                    ELSE /\ Len(Top.acc) = Len(item.inner.fields)
                         /\ ~HasNotModeled(source)
                         /\ EndsWith(source,
                                     <<"export type ">> \o item.name \o <<" =", " [">>
                                     \o Join(<<", ">>, Top.acc) \o <<"];", NL>>)]_vars
    /\ [](pc = "done" =>
            \A rdid \in BehindStrippedOnly :
                /\ ~MemoHas(used_types_by_rdid, rdid)
                /\ ~StructVisited(rdid))

\* The run on CrateStrippedTuple has ended with the placeholder for
\* Transaction, whose listed field leads to a struct nothing else refers
\* to, and with the one-entry tuple of UnverifiedTransaction.
C24_Witness ==
    /\ pc = "done"
    /\ BehindStrippedOnly # {}
    /\ IsPlaceholderFor(N_Transaction, stdout)
    /\ Occurs(<<"export type ">> \o N_UnverifiedTransaction
              \o <<" =", " [", "Uint8Array", "];", NL>>, stdout)

-----------------------------------------------------------------------------
(* C25 *)

\* The structs and enums the type expression leads to.
DeclsBehind(type) ==
    {rdid \in Closure(TypeRefs(type)) : crate.index[rdid].kind \in {"struct", "enum"}}

\* C25: visit_typedef returns what visit_rdtype returned for the alias's
\* target type, and by then every struct and enum the target leads to is
\* memoized; a reference to an alias renders as visit_typedef returned; and
\* the memo table never holds an entry for an alias.
C25_AliasRendersAsTarget ==
    /\ [][/\ Returns("visit_typedef") =>
                LET target == crate.index[Top.id].inner.type
                IN  /\ ret.fn = "visit_rdtype"
                    /\ SameType(ret.ty, target)
                    /\ ret'.val = ret.val
                    /\ \A rdid \in DeclsBehind(target) :
                          MemoHas(used_types_by_rdid', rdid)
          /\ (/\ Returns("visit_resolved_path")
              /\ Top.ty.id \notin WellKnownRdids
              /\ Top.ty.id \in DOMAIN crate.index
              /\ crate.index[Top.ty.id].kind = "typedef") =>
                /\ ret.fn = "visit_typedef"
                /\ ret.id = Top.ty.id
                /\ ret'.val = ret.val]_vars
    /\ [](\A i \in 1..Len(used_types_by_rdid) :
            LET rdid == used_types_by_rdid[i].rdid
            IN  rdid \in DOMAIN crate.index => crate.index[rdid].kind # "typedef")

\* The reference to the alias of Vec<Gen> has just been rendered as Gen[]:
\* Gen, first reached through the alias, is the only memo entry besides
\* the Event root.
C25_Witness ==
    /\ ret.fn = "visit_resolved_path"
    /\ ret.ty.id \in DOMAIN crate.index
    /\ crate.index[ret.ty.id].kind = "typedef"
    /\ ret.val = <<"G", "e", "n", "[]">>
    /\ Len(used_types_by_rdid) = 2
    /\ used_types_by_rdid[1].rdid = "#Event"
    /\ used_types_by_rdid[2].rdid = "#Gen"

-----------------------------------------------------------------------------
(* C26 *)

\* The reference rp names an indexed struct or enum.
NamesDeclaration(rp) ==
    /\ rp.id \notin WellKnownRdids
    /\ rp.id \in DOMAIN crate.index
    /\ crate.index[rp.id].kind \in {"struct", "enum"}

\* The declarations that only the generic arguments of a field's reference
\* to an indexed struct or enum lead to.
BehindArgumentsOnly ==
    LET refs == {crate.index[f].inner.inner :
                    f \in {g \in DOMAIN crate.index :
                              /\ crate.index[g].kind = "struct_field"
                              /\ crate.index[g].inner.kind = "resolved_path"}}
        named == {rp \in refs : NamesDeclaration(rp)}
    IN  Closure(UNION {UNION {TypeRefs(rp.args[i]) : i \in 1..Len(rp.args)} : rp \in named})
        \ Closure(RootRdids)

\* C26: a reference to an indexed struct or enum calls nothing but the
\* visit of its identifier and returns the declaration's name, whatever its
\* generic arguments; an identifier has at most one memo entry; and no
\* declaration that only such arguments lead to is visited or memoized.
C26_ReferenceDependsOnIdOnly ==
    /\ [][(Running("visit_resolved_path") /\ pc' = pc /\ NamesDeclaration(Top.ty)) =>
            LET item == crate.index[Top.ty.id]
            IN  IF Len(stack') = Len(stack) + 1
                THEN /\ stack'[Len(stack')].fn =
                            (IF item.kind = "struct" THEN "visit_struct" ELSE "visit_enum")
                     /\ stack'[Len(stack')].id = Top.ty.id
                ELSE /\ Len(stack') = Len(stack) - 1
                     /\ ret'.val = item.name
                     /\ ret.id = Top.ty.id]_vars
    /\ [](\A i, j \in 1..Len(used_types_by_rdid) :
            used_types_by_rdid[i].rdid = used_types_by_rdid[j].rdid => i = j)
    /\ [](pc = "done" =>
            \A rdid \in BehindArgumentsOnly :
                /\ ~MemoHas(used_types_by_rdid, rdid)
                /\ ~StructVisited(rdid))

\* The run on CrateDegraded has rendered Gen<Hidden> and Gen<u8> as Gen
\* and ended; Hidden is behind the argument only.
C26_Witness ==
    /\ pc = "done"
    /\ "#Hidden" \in BehindArgumentsOnly
    /\ Occurs(<<"    ", "g", ": ", "G", "e", "n", ";", NL,
                "    ", "h", ": ", "G", "e", "n", ";", NL>>, stdout)
    /\ DeclCount(stdout, <<"G", "e", "n">>) = 1

-----------------------------------------------------------------------------
(* C27 *)

\* The crate has an external crate and a path entry for the k-th
\* well-known declaration.
LookupSucceeds(k) ==
    \E c \in DOMAIN crate.external_crates, r \in DOMAIN crate.paths :
        /\ crate.external_crates[c].name = WellKnown[k][1]
        /\ crate.paths[r].crate_id = c
        /\ crate.paths[r].path = WellKnown[k][2]
        /\ crate.paths[r].kind = WellKnown[k][3]
SomeLookupFails == \E k \in 1..Len(WellKnown) : ~LookupSucceeds(k)

\* The identifiers a type expression mentions, generic arguments included.
RECURSIVE Mentioned(_)
Mentioned(type) ==
    IF type.kind = "array" THEN Mentioned(type.inner.type)
    ELSE IF type.kind = "resolved_path"
    THEN {type.inner.id}
         \cup UNION {Mentioned(type.inner.args[i]) : i \in 1..Len(type.inner.args)}
    ELSE {}

\* Every identifier a field of the crate mentions is in the path table: no
\* type refers to a declaration the table lacks.
NothingMissingIsUsed ==
    \A f \in DOMAIN crate.index :
        crate.index[f].kind = "struct_field" =>
            Mentioned(crate.index[f].inner) \subseteq DOMAIN crate.paths

\* C27: no visit starts and nothing is memoized or printed before the four
\* lookups are done; when one of them fails, the next step is the abort
\* with KeyError, and the run never visits a root, memoizes or prints
\* anything, whether or not a type uses the missing declaration.
C27_LookupsBeforeRoots ==
    /\ [](pc = "init" =>
            /\ root = 0 /\ stack = <<>>
            /\ used_types_by_rdid = <<>> /\ stdout = <<>> /\ stderr = <<>>)
    /\ [][(pc = "init" /\ SomeLookupFails) => (pc' = "crashed" /\ error' = "KeyError")]_vars
    /\ [](SomeLookupFails =>
            /\ pc \in {"init", "crashed"}
            /\ root = 0 /\ stack = <<>>
            /\ used_types_by_rdid = <<>> /\ stdout = <<>>)

\* The run on a crate without sk_cbor, none of whose types mentions a
\* missing declaration, has aborted.
C27_Witness ==
    /\ pc = "crashed"
    /\ error = "KeyError"
    /\ ~LookupSucceeds(4)
    /\ NothingMissingIsUsed
    /\ used_types_by_rdid = <<>>
    /\ stdout = <<>>

=============================================================================
